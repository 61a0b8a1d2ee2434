---------------------------- MODULE NativeSteps -----------------------------
(***************************************************************************)
(* The bindings (Android's JNI functions, the Ruby extension, JavaScript)  *)
(* are sequences of calls that may each fail.  A procedure is written here *)
(* as its steps, what it releases on the way out, and what it gives to its *)
(* caller; BindingCalls runs it.  Buffers and objects have names, not      *)
(* contents.  What a binding clears before it releases it is not modelled. *)
(***************************************************************************)
EXTENDS Sequences

\* checked: the code looks whether the step failed, and leaves then, with an exception,
\* an error or an answer that stands for one.  unreleased: the buffers that the way out
\* after its failure passes by.
Step(op, of) ==
    [op |-> op, of |-> of, reads |-> {}, decodes |-> {},
     checked |-> TRUE, unreleased |-> {}]

\* An argument, an object, a class or a field that may be null or of another type.
Given(what) == Step("given", what)

\* getInstanceId: the native object of a Java object, which is null when it was released.
Instance == Given("instance")

\* malloc, GetByteArrayElements, GetStringUTFChars, NewByteArray.
Acquire(buffer) == Step("acquire", buffer)

\* setRandomInBuffer; it is called for no bytes only when that is guarded against.
Random(buffer)      == Step("random", buffer)
RandomIfAny(buffer) == Step("random if any", buffer)

\* From here on there is something to do away with: the object that is to be
\* released, or a secret in a local variable or an argument, to be overwritten.
Holding(what) == Step("hold", what)

\* The contents of one buffer are copied to another.
Copy(buffer, source) == [Step("copy", buffer) EXCEPT !.reads = {source}]

\* A function of the library, which reads or fills some buffers, and decodes some of
\* those in place.
Library(reads, decodes) ==
    [Step("library", "") EXCEPT !.reads = reads, !.decodes = decodes]

Unchecked(step)       == [step EXCEPT !.checked = FALSE]
PassingBy(step, kept) == [step EXCEPT !.unreleased = kept]

\* Memory for an object, which is then made there.
NewObject(object) == <<Acquire(object), Unchecked(Library({object}, {}))>>

\* Several arguments, each checked in turn.
AllGiven(whats) == [i \in DOMAIN whats |-> Given(whats[i])]

\* releases: what the way out releases, or overwrites, if it is there.  makes: the
\* object that is the caller's when the procedure succeeds, and is released when it
\* fails.
Procedure(steps, releases) == [steps |-> steps, releases |-> releases, makes |-> {}]

Making(object, steps, releases) ==
    [Procedure(steps, releases) EXCEPT !.makes = {object}]

\* The native object is cleared and freed.  What was released before is let be.
Releasing(object) == Procedure(<<Instance, Holding(object)>>, {object})

\* A buffer is put into a new Java array, whose allocation is not checked.  The
\* array is the caller's.
Returning(buffer) == <<Unchecked(Acquire("result")), Copy("result", buffer)>>
=============================================================================
