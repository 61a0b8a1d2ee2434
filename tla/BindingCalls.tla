---------------------------- MODULE BindingCalls ----------------------------
(***************************************************************************)
(* One call after another of the procedures of a binding.  Each step of a  *)
(* procedure succeeds or fails in every way its code allows.               *)
(***************************************************************************)
EXTENDS NativeSteps, FiniteSets, Naturals

CONSTANTS Binding,         \* a procedure of NativeSteps for each name
          KnownLeaks,      \* KnownLeaks[name]: what the procedure may leave allocated
          Unguarded        \* Unguarded[name]: the buffers it uses without a look whether
                           \* they were allocated

ASSUME BindingNamed ==
    /\ DOMAIN KnownLeaks \subseteq DOMAIN Binding
    /\ DOMAIN Unguarded \subseteq DOMAIN Binding

VARIABLES
    name,        \* the procedure that runs
    at,          \* the step it is at
    held,        \* what is allocated, or not yet overwritten, and can be reached by name
    lost,        \* what is allocated and cannot
    null,        \* what the procedure takes for allocated, and is not
    decoded,     \* the buffers whose contents were decoded in place
    misread,     \* history: decoded buffers that were read again
    pc           \* "running", "returned", "crashed"

vars == <<name, at, held, lost, null, decoded, misread, pc>>

Init ==
    /\ name \in DOMAIN Binding
    /\ at = 1 /\ held = {} /\ lost = {} /\ null = {}
    /\ decoded = {} /\ misread = {}
    /\ pc = "running"

Running == pc = "running" /\ at <= Len(Binding[name].steps)
Now     == Binding[name].steps[at]

Continue == at' = at + 1 /\ UNCHANGED <<name, pc>>

\* The way out: holding is what can be reached when it begins, gone what no longer can.
Leave(holding, gone, releases) ==
    /\ held' = {}
    /\ lost' = lost \union gone \union (holding \ releases)
    /\ pc' = "returned"
    /\ UNCHANGED <<name, at, null>>

Failed(holding, gone) ==
    LET procedure == Binding[name]
    IN  Leave(holding, gone, (procedure.releases \union procedure.makes) \ Now.unreleased)

\* The step uses what it reads, and what it writes to.
Uses(step) == step.reads \union (IF step.op = "copy" THEN {step.of} ELSE {})

Sound == Uses(Now) \intersect null = {}

Check ==
    /\ Running /\ Now.op = "given"
    /\ \/ Continue /\ UNCHANGED <<held, lost, null, decoded, misread>>
       \/ Failed(held, {}) /\ UNCHANGED <<decoded, misread>>

\* A second allocation under a name loses the first.
Allocate ==
    /\ Running /\ Now.op = "acquire"
    /\ lost' = lost \union (held \intersect {Now.of})
    /\ held' = held \union {Now.of}
    /\ Continue /\ UNCHANGED <<null, decoded, misread>>

AllocateNot ==
    /\ Running /\ Now.op = "acquire" /\ ~Now.checked
    /\ lost' = lost \union (held \intersect {Now.of})
    /\ held' = held \ {Now.of}
    /\ null' = null \union {Now.of}
    /\ Continue /\ UNCHANGED <<decoded, misread>>

AllocateFails ==
    /\ Running /\ Now.op = "acquire" /\ Now.checked
    /\ Failed(held \ {Now.of}, held \intersect {Now.of})
    /\ UNCHANGED <<decoded, misread>>

\* Its buffer may be allocated when setRandomInBuffer fails later.
Randomise ==
    /\ Running /\ Now.op \in {"random", "random if any"}
    /\ \/ held' = held \union {Now.of} /\ Continue /\ UNCHANGED <<lost, null>>
       \/ \E allocated \in {{}, {Now.of}} : Failed(held \union allocated, {})
    /\ UNCHANGED <<decoded, misread>>

RandomiseNothing ==
    /\ Running /\ Now.op = "random if any"
    /\ Continue /\ UNCHANGED <<held, lost, null, decoded, misread>>

Hold ==
    /\ Running /\ Now.op = "hold"
    /\ held' = held \union {Now.of}
    /\ Continue /\ UNCHANGED <<lost, null, decoded, misread>>

Refill ==
    /\ Running /\ Now.op = "copy" /\ Sound
    /\ misread' = misread \union (Now.reads \intersect decoded)
    /\ decoded' = decoded \ {Now.of}
    /\ Continue /\ UNCHANGED <<held, lost, null>>

CallLibrary ==
    /\ Running /\ Now.op = "library" /\ Sound
    /\ misread' = misread \union (Now.reads \intersect decoded)
    /\ decoded' = decoded \union Now.decodes
    /\ Continue /\ UNCHANGED <<held, lost, null>>

LibraryFails ==
    /\ Running /\ Now.op = "library" /\ Now.checked /\ Sound
    /\ misread' = misread \union (Now.reads \intersect decoded)
    /\ decoded' = decoded \union Now.decodes
    /\ Failed(held, {})

Crash ==
    /\ Running /\ ~Sound
    /\ pc' = "crashed"
    /\ UNCHANGED <<name, at, held, lost, null, decoded, misread>>

Return ==
    /\ pc = "running" /\ at > Len(Binding[name].steps)
    /\ Leave(held \ (Binding[name].makes \union {"result"}), {}, Binding[name].releases)
    /\ UNCHANGED <<decoded, misread>>

CallAgain ==
    /\ pc # "running"
    /\ name' \in DOMAIN Binding
    /\ at' = 1 /\ held' = {} /\ lost' = {} /\ null' = {}
    /\ decoded' = {} /\ misread' = {}
    /\ pc' = "running"

Next ==
    \/ Check \/ Allocate \/ AllocateNot \/ AllocateFails \/ Randomise \/ RandomiseNothing
    \/ Hold \/ Refill \/ CallLibrary \/ LibraryFails \/ Crash \/ Return \/ CallAgain

Spec == Init /\ [][Next]_vars

-----------------------------------------------------------------------------
(* Properties *)

\* On whichever step a procedure fails, and when it succeeds, nothing is left
\* allocated that nobody can release, but for the leaks listed by name: the
\* releases of the code cover every way out.
NothingLeaked ==
    pc = "returned" =>
        lost \subseteq (IF name \in DOMAIN KnownLeaks THEN KnownLeaks[name] ELSE {})

\* No function of the library is given a buffer that an earlier one has decoded
\* in place (olm.h 393 and 405: the message buffer is destroyed), unless its contents
\* were copied there again.
InputsIntact == misread = {}

\* Whatever allocation fails, on whichever call, no procedure reads or writes the
\* buffer it did not get, neither itself nor in the function of the library it gives
\* it to, but for the uses listed by name: the checks of the code come before every use.
MissingUnused ==
    pc = "crashed" =>
        Uses(Now) \intersect null
          \subseteq (IF name \in DOMAIN Unguarded THEN Unguarded[name] ELSE {})
=============================================================================
