----------------------------- MODULE RubyCalls ------------------------------
(***************************************************************************)
(* The methods of the Ruby extension: ext_account.c, ext_session.c and     *)
(* ext_utility.c.  A call of the Ruby interpreter, to make a string, get   *)
(* random bytes or find a class, may raise, and then nothing below it in   *)
(* the method runs, the release of the method's buffer included.  What     *)
(* dup_string returns belongs to the garbage collector.                    *)
(***************************************************************************)
EXTENDS NativeSteps

Ruby(what)        == Given(what)
RubyHolding(what) == PassingBy(Given(what), {"ptr"})

DupString(copy, string) == <<Ruby("string"), Copy(copy, string)>>

\* A method that encodes something into a buffer and makes a string of it.
Writing(reads) ==
    Procedure(<<Acquire("ptr"), Library(reads \union {"ptr"}, {}), RubyHolding("string")>>,
              {"ptr"})

\* The buffer is on the stack here.
OnStack(reads) == Procedure(<<Library(reads, {}), Ruby("string")>>, {})

\* What the allocation returns is not looked at, and what it allocated is released
\* with the Ruby object, when that is there.
Alloc(object) ==
    Making(object, <<Unchecked(Acquire(object)), PassingBy(Ruby("wrapper"), {object}),
                     Unchecked(Library({object}, {}))>>, {})

Free(object) == Procedure(<<Holding(object)>>, {object})

alloc_account == Alloc("account")
alloc_session == Alloc("session")
alloc_utility == Alloc("utility")
free_account  == Free("account")
free_session  == Free("session")
free_utility  == Free("utility")

Unpickling ==
    Procedure(<<Ruby("type of pickle"), Ruby("type of password")>> \o DupString("copy", "pickle")
                \o <<Library({"password", "copy"}, {"copy"})>>,
              {})

account_from_pickle == Unpickling

initialize_account == Procedure(<<Ruby("random"), Library({"random"}, {})>>, {})

identity_keys == OnStack({})

generate_one_time_keys ==
    Procedure(<<Ruby("number"), Ruby("random"), Library({"random"}, {})>>, {})

one_time_keys == Writing({})

sign == Writing({"message"})

\* The result of this call is cast to void, the one of the next is looked at.
mark_keys_as_published == Procedure(<<Unchecked(Library({}, {}))>>, {})

remove_one_time_keys == Procedure(<<Library({}, {})>>, {})

account_to_pickle == Writing({"password"})

initialize_session == Unpickling

initialize_outbound ==
    Procedure(AllGiven(<<"type of account", "type of identity", "type of one_time_key">>)
                \o <<Ruby("random"), Library({"identity", "one_time_key", "random"}, {})>>,
              {})

initialize_inbound ==
    Procedure(<<Ruby("type of message"), Ruby("to_s")>> \o DupString("copy", "message")
                \o <<Library({"identity", "copy"}, {"copy"})>>,
              {})

get_session_id == OnStack({})

will_receive ==
    Procedure(<<Ruby("type of message"), Ruby("to_s")>> \o DupString("copy", "message")
                \o <<Library({"identity", "copy"}, {"copy"})>>,
              {})

encrypt ==
    Procedure(<<Acquire("ptr"), RubyHolding("class"), RubyHolding("random"),
                Library({"plain", "random", "ptr"}, {}), RubyHolding("message")>>,
              {"ptr"})

\* Each of the two calls of the library gets a copy of its own.
decrypt ==
    Procedure(<<Ruby("type of cipher"), Ruby("to_s")>> \o DupString("first copy", "data")
                \o <<Library({"first copy"}, {"first copy"}), Acquire("ptr"),
                     RubyHolding("string"), Copy("second copy", "data"),
                     Library({"second copy", "ptr"}, {"second copy"}), RubyHolding("string")>>,
              {"ptr"})

session_to_pickle == Writing({"password"})

\* What olm_sha256 returns is ignored: its buffer always has the right length.
sha256 == Procedure(<<Unchecked(Library({"data"}, {})), Ruby("string")>>, {})

Procedures ==
    [alloc_account          |-> alloc_account,
     alloc_session          |-> alloc_session,
     alloc_utility          |-> alloc_utility,
     free_account           |-> free_account,
     free_session           |-> free_session,
     free_utility           |-> free_utility,
     account_from_pickle    |-> account_from_pickle,
     initialize_account     |-> initialize_account,
     identity_keys          |-> identity_keys,
     generate_one_time_keys |-> generate_one_time_keys,
     one_time_keys          |-> one_time_keys,
     sign                   |-> sign,
     mark_keys_as_published |-> mark_keys_as_published,
     remove_one_time_keys   |-> remove_one_time_keys,
     account_to_pickle      |-> account_to_pickle,
     initialize_session     |-> initialize_session,
     initialize_outbound    |-> initialize_outbound,
     initialize_inbound     |-> initialize_inbound,
     get_session_id         |-> get_session_id,
     will_receive           |-> will_receive,
     encrypt                |-> encrypt,
     decrypt                |-> decrypt,
     session_to_pickle      |-> session_to_pickle,
     sha256                 |-> sha256]
=============================================================================
