# Formal models of ruby_olm

`ruby_olm` is a Ruby binding to libolm, an implementation of the Olm double
ratchet (two users, one session) and of Megolm (one sender, many readers). This
directory holds TLA+ modules that model its state machines, TLC configurations
that check them on small instances, and TLAPS proofs of the main results for all
values of the constants. Below, `olm/` is
`src/ext/ruby_olm/ext_lib_olm/olm/` and `ext_*.c` are the files beside it.

    cd tla
    tlc -workers 2 -config MCDoubleRatchet.cfg  MCDoubleRatchet.tla
    tlc -workers 2 -config MCRatchetLimits.cfg  MCRestored.tla
    tlc -workers 2 -config MCSessionSetup.cfg   MCSessionSetup.tla
    tlc -workers 2 -config MCKeyUpload.cfg      MCKeyUpload.tla
    tlc -workers 2 -config MCMegolm.cfg         MCMegolm.tla
    tlc -workers 2 -config MCGroupChat.cfg      MCGroupChat.tla
    tlc -workers 2 -config MCMessageReading.cfg MCMessageReading.tla
    tlc -workers 2 -config MCOutputBuffers.cfg  MCOutputBuffers.tla
    tlc -workers 2 -config MCStorage.cfg        MCStorage.tla
    tlc -workers 2 -config MCBindings.cfg       MCBindings.tla
    tlc -workers 2 -config MCPkMac.cfg          MCOutputBuffers.tla   (finds a violation)
    tlc -workers 2 -config MCStorageShort.cfg   MCStorage.tla         (finds a violation)
    tlapm DoubleRatchetProofs.tla
    tlapm SessionSetupProofs.tla
    tlapm KeyUploadProofs.tla
    tlapm MegolmWalkProofs.tla
    tlapm GroupChatProofs.tla
    tlapm MessageReadingProofs.tla

`tlapm` checks the module it is given: `ObjectProofs` and `MegolmProofs`, which
these extend, are checked the same way.

`PROJECT.json` maps every definition to the source lines it stands for, and lists
the runs, the mutants (a plausible bug for each property, which TLC must catch),
the hazards and the theorems.

## 1. Inventory

### The system's parts

| part | state | operations | files |
|---|---|---|---|
| bounded list | up to `max_size` elements | insert at a position, erase | `olm/include/olm/list.hh` |
| ratchet | root key, sender chain (0 or 1), receiver chains (<= 5), skipped message keys (<= 40) | initialise as Alice / as Bob, encrypt, decrypt, pickle, unpickle | `olm/src/ratchet.cpp` |
| session | a ratchet, `received_message`, the identity, base and one-time keys of its set-up | new outbound, new inbound, matches inbound, encrypt, decrypt, message type, id, pickle | `olm/src/session.cpp`, `ext_session.c`, `session.rb` |
| account | identity keys, up to 100 one-time keys with id and published flag, the id counter | create, generate, list, mark as published, look up, remove, sign, pickle | `olm/src/account.cpp`, `ext_account.c`, `account.rb` |
| Megolm ratchet | four 32-byte parts and a 32-bit counter | advance, advance to an index | `olm/src/megolm.c` |
| group sessions | outbound: a Megolm ratchet and a signing key; inbound: the initial and the latest ratchet, `signing_key_verified` | create, import, encrypt, decrypt, export, pickle | `olm/src/outbound_group_session.c`, `olm/src/inbound_group_session.c` |
| message format | none | encode and decode of tagged fields and varints | `olm/src/message.cpp` |
| pickle format | none | encode, decode, encrypt, base64 | `olm/src/pickle.cpp`, `olm/include/olm/pickle.hh`, `olm/src/pickle_encoding.c` |
| public-key encryption | a key pair | encrypt, decrypt | `olm/src/pk.cpp` |
| C interface | last error of each object | one function per operation, base64 of arguments and results | `olm/src/olm.cpp` |
| Ruby binding | one C object per Ruby object | one method per operation, errors as exceptions | `ext_lib_olm.c`, `ext_*.c`, `src/lib/ruby_olm/` |
| Android binding | one native handle per Java object | one JNI function per operation, over buffers of its own | `olm/android/olm-sdk/src/main/jni/` |
| JavaScript binding | one pointer per object, Emscripten's stack | one method per operation | `olm/javascript/` |
| base64 | none | lengths, encode, decode, both in place | `olm/src/base64.cpp` |
| primitives | none | AES, SHA-256, HMAC, HKDF, Curve25519, Ed25519 | `olm/src/crypto.cpp`, `olm/src/cipher.cpp`, `olm/lib/` |

### How they interact

A Ruby method calls one function of the C interface, which decodes its arguments
and calls one method of a class. No call blocks or calls back and an
object belongs to one thread (`readme.md`: "Interfaces are not thread safe"), so
one call is one atomic step. Concurrency is between *users*: two sessions, each
in its own process, exchange messages over a network that delays, loses,
duplicates and reorders them, and a directory (outside this repository) hands
one user's published one-time keys to others. A session calls its
ratchet; an inbound session reads the one-time key it needs from the account,
and `Account#remove_one_time_keys` takes it out; both are stored as pickles.

### What is hard, and what makes each part correct

*Ratchet and session.* Either end may send at any time. A reply with a new
ratchet key replaces both root keys; chains cross on the wire; messages arrive out
of order across several chains; two bounded lists drop their oldest
elements silently, in the middle of an operation; the header is not
authenticated until a key has been derived from it. Correct means: what is
opened was sent by the peer and opens once; message keys are never reused and
are gone once used; the two root keys stay in step whatever arrives; every message
within the limits opens.

*Account.* Lists of keys are uploaded, the answer may be lost, the process may
die, the list of 100 keys may overflow. Correct means: a key that somebody was
given works until it is used or crowded out, works only once, and the flags and
ids agree with what the directory was told.

*Setting sessions up.* Both users may start at once; a pre-key message
may be copied; the one-time key stays in the account until it is removed.

*Group sessions.* The order of 32-bit indexes is taken modulo 2^32 with a half-range
test; `megolm_advance_to` jumps over what `megolm_advance` walks, with special
cases where digits wrap; decrypting and exporting move the latest ratchet, and
before the MAC has been checked; creating a session from a share fills it before
the signature is checked; nobody signs an export, so one that was damaged is taken as it is. Correct means:
what a reader opens and hands on depends on what it was given and on nothing that happened since.

*Formats.* Cursors and lengths at the end of the input; several of them are
computed from the input itself. A decoded field must lie in the payload, the loop must
end, a pickle of another kind must be refused.

*Buffers.* Lengths are computed apart from the code that writes, and raw bytes are
encoded in the very buffer that they lie in.

*Bindings.* A function acquires several buffers, and each step after may fail or raise.

`PROJECT.json` lists the hazards one by one, at their lines.

### Fairness

Nothing in the library runs by itself, waits or retries, so for the protocol models
there is no fairness to assume: a message need never be sent. What "must
eventually happen" becomes "is possible now" there: `Openable`, `HistoryReadable`.
Inside one call there is a loop that must end: that of `decode_message` over the
fields of a message. `MessageReading` assumes weak fairness of its only process,
`WF_vars(Next)`: the loop is sequential code that nothing can block or
preempt for ever, and its step is enabled until it is done. `Terminates` is the liveness
property; a turn of the loop that did not move the cursor would violate it.

## 2. Modules

| module | models | uses |
|---|---|---|
| `OlmList` | `List<T, max_size>` and how a pickled list is restored | |
| `Ratchet` | one `Ratchet`: its data and operations, as operators from a ratchet to a ratchet | `OlmList` |
| `DoubleRatchet` | two established sessions and the network | `Ratchet` |
| `RestoredSessions` | the two sessions when their processes end and go on from older pickles | `DoubleRatchet` |
| `Channel` | abstract: what two users' sessions promise them | |
| `Account` | the one-time keys of one `Account`, as operators | `OlmList` |
| `KeyUpload` | an account, its owner's upload rounds, the directory, restarts | `Account` |
| `Session` | one `Session`: setting up either end, matching, encrypt, decrypt, as operators | `Ratchet`, `Account` |
| `SessionSetup` | two users, their accounts and all sessions between them | `Session`, `Channel` |
| `Megolm` | the hash ratchet: `megolm_advance`, `megolm_advance_to` | |
| `MegolmWalk` | a ratchet walked step by step, the reference for the jump | `Megolm` |
| `GroupSession` | one outbound and one inbound group session, as operators | `Megolm` |
| `GroupHistory` | abstract: what group sessions promise | |
| `GroupChat` | a sender, readers, shares, exports, the network, restarts | `GroupSession`, `GroupHistory` |
| `MessageFormat` | the wire formats: fields, varints, the cursor | |
| `MessageReading` | the decoding loop on one input, one call a step | `MessageFormat` |
| `Base64` | lengths, encoding and decoding group by group | |
| `OutputBuffers` | what the C interface writes to its caller's buffers | `Base64` |
| `Pickle` | the layouts of the five kinds of objects, the envelope | `Base64` |
| `Storage` | storing an object and loading it, one field a step | `Pickle` |
| `NativeSteps` | the steps that functions of the C interface and the bindings are made of | |
| `CInterface` | each function of the C interface, and those below it that make secrets, as its steps | `NativeSteps` |
| `AndroidSession`, `AndroidAccount`, `AndroidGroup`, `RubyCalls`, `JavascriptCalls` | each function of a binding, as its steps | `NativeSteps` |
| `BindingCalls` | runs them, each step failing in each way it can | `NativeSteps` |
| `MC...` | instances for TLC | |
| `ObjectProofs`, `MegolmProofs` | lemmas about the operators: lists, accounts and ratchets; the hash ratchet | `Ratchet`, `Account`; `Megolm` |
| `DoubleRatchetProofs`, `SessionSetupProofs`, `KeyUploadProofs`, `MegolmWalkProofs`, `GroupChatProofs`, `MessageReadingProofs` | theorems | the module they are named after, and these lemmas |

### Symbolic secrets

A key pair is a number. A Diffie-Hellman secret is the set of the two key pairs
it comes from, so both ends compute the same one. `create_chain_key` (HKDF) gives
a root key and a chain key at once. The root key is modelled as the sequence of
secrets mixed in so far, and the new chain is named by it; a chain key is that
name and an index, and a message key too. The MAC of a message is right
under exactly the key that it was made with (`sealed_with`). So two parties agree on
a key in the model exactly when the code would compute the same bytes, provided that HKDF,
HMAC and X25519 have no collisions.

### Ratchet

`encrypt` is `ReadyToSend` (start a sender chain from `receiver_chains[0]` when
there is none), `Encrypted` (the message) and `AfterEncrypt` (the ratchet
afterwards). `decrypt` is `CanDecrypt`, the conditions under which the code
goes past `output_length == -1`, and `AfterDecrypt`, what it does then: it starts a
receiver chain and gives the sender chain up; or erases the skipped key that
opened the message; or keeps the keys it steps over and advances the chain. The
searches take the first match in the lists, as the loops do. The loop that keeps
skipped keys is its result: the new keys, newest first, before the old ones, cut
to the capacity.

Buffer-length and missing-random errors are returned before any change, and are
left out here; `OutputBuffers` has the buffers.

### DoubleRatchet

Per party: the ratchet and `received_message`. The rest is history: what
was sent, opened and passed over. Alice is the outbound end and has the
first sender chain; Bob is the inbound end and has the matching receiver chain.
The actions are `Encrypt`, `ReceiveIntact` (any message ever sent, by either
party, at any time, any number of times), `ReceiveDamaged` (any header, a MAC that
is right under no key) and `Restart` (through a pickle written just before).

| property | what it says |
|---|---|
| `NoReplay` | an opened message never opens again |
| `KeysErased` | a session holds nothing from which the key of an opened or sent message derives |
| `NoKeyReuse` | no two messages of either party have the same key |
| `RootsInStep` | one root key extends the other by at most one secret; `decrypt` of junk moves neither |
| `ReceiverBehindSender` | no receiver chain is past the end of the chain it reads |
| `PeerKeyKnown` | `encrypt` never reads `receiver_chains[0]` of an empty list |
| `Openable` | a message not yet opened opens now, whatever came before, if it is within the limits (fewer than `MaxReceiverChains` newer chains, fewer than `MaxSkippedMessageKeys` keys passed over since, a gap of at most `MaxMessageGap`) |
| `PreKeyUntilAnswered` | a message is a pre-key message iff its sender has opened nothing |
| `ChannelSpec` | the pair implements `Channel`: accepted at most once, and only what the peer made |

`TypeOK` (types, and the capacities of the lists) is a part of `SessionInv`, the inductive
invariant of section 4, which the next module's run checks.

### RestoredSessions

`Restart` above goes on from the state of the last call. Here a process may end at any time and
its session go on from its last pickle, which may be several calls older: `saved[p]` is that
pickle with the history that goes with it, and `Restore` takes the object back to it, so that what
was encrypted and decrypted since is forgotten. The library cannot tell. What it leaves to its
user is in `SaveAndSend`: a session is pickled before a message it encrypted leaves
(`network`) and before a plaintext it decrypted is used. Decryption itself is free, and a message
whose plaintext was lost may arrive again. Key pairs are random, so the numbers of lost ones are not
given again. Without that order two messages would have one key, and no property could hold.
The other actions are those of `DoubleRatchet`, over what has left.

| property | what it says |
|---|---|
| `GoneForGood` | neither a session nor the pickle it may go back to can make again the key of a message that has left it or whose plaintext was used |
| `SessionInv` | the invariant of section 4 of the objects, after any number of restores: no replay, no key twice, nothing kept |
| `Openable` | as above, of the objects: what was lost with a process opens again |

### KeyUpload

`account` is the object and `pickled` the last pickle the owner kept. The actions are
`Generate`, `List`, `Mark`, `Use`, `Save` and `Restart`, each a method of the Ruby class
or a restore, and `Send`, `Upload`, `GiveUp` and `Claim` of the application, the network and the
directory, which are outside the repository. A request may be lost, arrive late or more than
once, after the owner has given up or has been restarted. The owner pickles when it
likes, so a restart may lose any number of calls. What the library leaves to
its user is a guard: no key is generated between listing and marking (`mark_keys_as_published`
marks *all* keys, so one generated in between would never be listed), the listed keys are in a pickle before
they are sent, and the directory gives each key once.

| property | what it says |
|---|---|
| `UploadInv` | the inductive invariant of section 4, types and the limit of the list included |
| `ServableUnlessCrowdedOut` | a key the directory has taken works until it is used, or until 100 newer ones were generated |
| `NewestKept` | a full list drops its oldest keys, and no others |
| `UsedKeysGone` | a key that was removed never works again, after restarts too unless the process stopped before the removal was pickled |
| `UploadedIdsDistinct` | the directory never sees one id for two keys |
| `PublishedWereUploaded` | a key marked as published is one the directory took |

### SessionSetup

A user has an account and a set of sessions. A session carries the three public
keys of its set-up and the shared secret, a triple of Diffie-Hellman secrets computed by
each end from its own private keys and what it was told. Ratchet keys and root keys
are relative to that secret, so a message made with another secret has, for this
session, a wrong MAC. The keys of the two users have numbers of their own: the first is
the identity key, and after it come the one-time keys and what sessions and ratchets
need, `KeysPerUser` in all. The actions are the calls `Outbound`, `Inbound`, `Encrypt`, `Receive`,
`RemoveOneTimeKey`, and `Discard`, by which the application drops a session. Messages arrive
in any order, any number of times, at any session of either user, intact or with one field damaged. The keys
in front of a pre-key message's body are not under its MAC; the ratchet key is.

The application's part is a guard: it creates an inbound session only when none
of its sessions `will_receive?` the message, as `test_bob_no_answer.rb` does; it removes a
one-time key once the session has decrypted something; and it drops such a session only
after that. (The example in `readme.md` removes the key right after creating the session;
with a damaged first message that would lose the key, so the model waits for the decryption.)

| property | what it says |
|---|---|
| `EndsAgree` | a session that decrypted something has the id and the shared secret of the session that wrote it |
| `RoutedRight` | such a session will receive exactly the pre-key messages of its other end, also when both users start at once, or twice with one key, and when an inbound session encrypts before it decrypts |
| `PreKeyReadable` | whichever pre-key message arrives intact first, it can be read, whatever sessions damaged messages have created before, within the limits of the ratchet: it is at most `MaxMessageGap` ahead, and what was opened on the chain at most `MaxSkippedMessageKeys` |
| `ChannelSpec` | all sessions of a user together implement `Channel`: nothing is accepted twice, by the same session or another |

### Megolm and MegolmWalk

The counter has four digits, of eight bits in the code and of any `Radix` here
(256 would be the code's). A
value is the record of how it was derived (its random seed and the seed of each HMAC
since), so that two values are equal exactly if they were derived alike.
`AdvanceTo` has the loop of `megolm_advance_to` over the four parts with its number of
rehashes, the special case for wrap-around included, and counts the HMACs.

| property | what it says |
|---|---|
| `JumpIsWalk` | from any counter, one jump arrives at the very values that single steps do, over the end of the counter too |
| `HashesBounded` | a jump costs at most `4 * (Radix - 1) + 6` HMACs, and the one from the first index to the last costs that many |

### GroupSession and GroupChat

A message carries the ratchet value it was encrypted with; a MAC or a signature is right
exactly if it covers that. An operation that can fail gives the session *after* the
call with its success, because the code changes the session before it knows: `GroupDecrypt`
and `Export` advance the latest ratchet, a share overwrites both ratchets before its
signature is checked. `GroupChat` is a sender, readers and their applications: `Write`,
`SaveAndSend`, `RestartSender`, `Share`, and for each reader `Create` (from a share or
an export, damaged ones included, again after a failure), `ReceiveAny`, `ExportKey`, `SaveReader`,
`RestartReader`.

What a reader is given may be damaged on its way (`Damages`): some parts of the ratchet or all of them,
the counter, the signing key, or several of these. Of a share this breaks the signature. An export has none: `_init_group_session_keys`
takes its counter, ratchet and key as they are. A session with the wrong key opens nothing. One with a wrong
part, or a wrong counter, may meet the sender's ratchet later: `megolm_advance_to` reseeds the lower parts from a
higher one at each multiple of 256 (of the radix), and where the damage lay below, the
session then opens messages, and says that it is verified. So `Known(r)`, the indexes a reader can open, is
not "all from the first known index on" but where its *initial* ratchet, advanced, is the sender's with the
sender's key (`Joins`); `Genuine(r)` says that this is so at the first known index.

The sender's application saves before it lets a message go. That is an assumption:
nothing in the library enforces it, and without it two messages have one index.
A reader saves when it likes.

| property | what it says |
|---|---|
| `HistoryReadable` | a reader opens, at any time and however often, exactly the messages of `Known`, and all from its first known index on if what it was given is genuine |
| `HistoryExportable` | it can export at every index from its first known one on if that is genuine, and what it exports is the sender's ratchet and key exactly at the indexes of `Known` |
| `VerifiedOnEvidence` | a session that says its key is verified was given the sender's ratchet and key, or has opened a message with them, also after an import, damage, a failed creation or a restart |
| `HistorySpec` | the whole implements `GroupHistory`: no index twice, to know an index is to know all later ones, nobody opens what it does not know, through crashes and damage |

### MessageFormat and MessageReading

The three formats byte by byte. The arithmetic on lengths and cursors is done modulo the
widths of `std::uint32_t` and `std::size_t`, scaled to 10 and 14 bits so that inputs of a few
bytes can overflow them. What a reader holds on the stack before it is decoded is any value.

| property | what it says |
|---|---|
| `FieldsInside` | fields lie in the part of the payload that was read, whatever lengths a message claims, and share no byte |
| `TooShortRefused` | a message without a payload is refused, whatever was on the stack |
| `ReadAsWritten` | what was encoded is read back, in the bytes allocated for it, also with a field unknown to this version |
| `Terminates` | decoding ends, on any input |

### Base64 and OutputBuffers

Memory is the caller's buffer and some cells after it. A call checks a length, puts
raw bytes somewhere (in several functions into the end of the same buffer) and encodes them group by group
from the front.

| property | what it says |
|---|---|
| `BufferRespected` | no cell after the buffer is written |
| `WrittenAsPromised` | the result is the encoding (against a definition over bits) in as many cells as the `*_length` function says, although the input lay in the same cells |
| `DecodedBack` | decoding it in place gives the bytes back |

### Pickle and Storage

A layout is the sequence of the fields of a kind and version. `Storage` stores an
object and loads it, perhaps as another kind, with another key, from a damaged
text, or again after a failure. The encryption of the envelope is symbolic: its
MAC is right under the same key only.

| property | what it says |
|---|---|
| `LoadedAsStored` | what is loaded is what was stored, from every older layout too; a good pickle is refused only for its envelope |
| `OtherKindRefused` | a pickle of another kind never loads as an account, session or decryption key |
| `WrongLengthRefused` | the same of the length for the group sessions; violated, see Findings |

### The C interface and the bindings

A procedure is the sequence of its steps (an argument that may be bad, an
allocation, random bytes, a secret in a local variable, a copy, a call of the library that reads
or fills buffers and may decode one in place), what its way out releases or overwrites, and the object it makes.
`BindingCalls` runs it with each step succeeding
or failing in every way its code allows. A failed allocation whose result is not
looked at ends in `"crashed"` when a later step reads or fills the buffer. A failure that
is looked at ends the procedure; whether it is told by an exception, a value or not at all is left out.

`CInterface` has the functions of `olm.cpp`, `pk.cpp` and the group sessions, and the methods and
primitives below them where their secrets are made. What is "held" there is what the code
overwrites with `olm::unset` where it is done with it: random bytes it was handed, the locals of the triple
Diffie-Hellman, of HKDF and of HMAC, keys of a cipher, copies of a Megolm ratchet. In the bindings, it is what
was allocated, and an object that is to be released.

| property | what it says |
|---|---|
| `NothingLeaked` | however a procedure ends, nothing stays allocated that cannot be released, and no secret is left that the code has in hand to overwrite, but for what is listed |
| `InputsIntact` | no buffer decoded in place is given to the library again without being filled again |
| `MissingUnused` | whichever allocation fails, its buffer is used neither by the procedure nor by the library, but for what is listed |

The exceptions are lists in `MCBindings`, so that a new one would be found.
`MCKnownLeaks`: in the Android binding the random buffer, when `setRandomInBuffer` fails after
allocating it, and `publicKey`, `privateKey` and `ciphertext` of the pk functions; in the
extension `ptr`, when Ruby raises between the `malloc` and the `free`, and a new object, when Ruby
raises before it has been wrapped; in the C interface the random bytes where a length is refused
before the method is called (`olm_create_outbound_session`, `olm_encrypt`,
`olm_init_outbound_group_session`), those of the pk functions, which overwrite nothing,
the copy of the ratchet in `olm_export_inbound_group_session`, and the message key in
`verify_mac_and_decrypt_for_existing_chain`. No document of the library promises that these are
overwritten; the list says which are not. `MCUnguarded`: in the Android binding the array that is returned
(two functions look whether they got it), the copy of the message and the plaintext of `decryptMessageJni`, the plaintext
of the group's, and the message of `signMessageJni`; the object of a new Ruby object; and all that the JavaScript
binding mallocs.

## 3. Runs

| run | instance | distinct states |
|---|---|---|
| `double_ratchet` | 2 receiver chains, 2 skipped keys, gap 2, 4 messages per party | 61,875 |
| `ratchet_limits` | restores; 1 receiver chain, 1 skipped key, gap 2, 4 messages per party, 2 new key pairs, 2 calls not pickled | 276,209 |
| `key_upload` | 2 keys in the list, 4 generated, up to 3 at once | 233,277 |
| `session_setup` | 1 one-time key each, 2 outbound sessions started, 2 live sessions per user, 3 messages, 1 receiver chain | 268,364 |
| `megolm` | digits of radix 4, each of 256 starts walked to each index | 65,536 |
| `group_chat` | 1 reader, 3 messages, 2 shares or exports, 8 kinds of damage, digits of radix 2 | 20,517 |
| `message_format` | fields of length 0, 2, 3 and 129, counters around 7, 14 and 10 bits, all payloads of a version and 4 bytes over 6 to 8 values | 111,493 |
| `output_buffers` | all strings to 4 bytes over 4 values, one of each length the library encodes; buffers from one cell too short to four too long | 58,132 |
| `pickle` | each kind, lists of 0 to 2 elements, older layouts, 2 keys, 2 loads | 6,300 |
| `bindings` | every function, every way to fail | 1,522 |
| `pk_mac` | mac buffers of 7 to 12 bytes | violation |
| `pickle_short` | as `pickle`, with one load | violation |

Each bound is small enough to be exceeded inside the run. With four messages
each, the parties can change turns often enough to overflow two receiver
chains, and a chain of four messages exceeds a gap of two. There the list of two skipped keys
fills; it overflows in `ratchet_limits`, where one insertion drops everything older, and where two
calls that are not pickled yet can lose a decryption that started a receiver chain together with the
encryption that answered it. In `key_upload` a call for three
keys overfills a list of two by itself. The sizes of the code (5, 40, 2000, 100) enter
only through comparisons and the two list operations, so small values show the
same cases; the theorems of section 4 do not depend on them at all.
In `session_setup` two outbound sessions are enough for both users to start at once and for
one of them to start twice with one key, and three messages for a question, an answer and a message on
the next chain, which overflows one receiver chain.
`MaxSent`, `MaxKeyPairs`, `MaxUnsaved`, `MaxStarted`, `MaxSessions` and `MaxGenerated` bound only the exploration. Damaged headers range over all ratchet keys made
so far and one not yet made, and over counters past every message sent.


In `megolm` a digit of radix 4 has a first, a last and two middle values, and all
pairs of indexes less than a turn apart are met. In `group_chat` the counter
has 4 bits, so that half its range is eight: more than the three messages, as
2^31 is more than any conversation: `WithinHalf` assumes it, in the proofs too. Only a damaged counter lies
anywhere. Asking for indexes further apart is possible, since the index of an export is the caller's choice: it can take the latest ratchet
around the counter, and is not covered. Three messages pass index two, where the lowest part is reseeded
from the one above, so that a damaged lowest part heals inside the run and a damaged highest one does not; a counter
that is one too low is overtaken, one that is one too high is not, and one of twelve comes to the conversation around
the end of the range. With two readers the damages make the run too large. One is enough for
what a session does: readers share nothing but the keys that they make and are given, and a reader that loses its session creates the next one from
its own exports. The proofs are for any number.
In `message_format` four bytes hold two fields, or one whose length reaches past the end; the alphabet has
each tag of the format, an unknown tag of each wire type, small lengths and a continued varint,
and 129 bytes need a length of two. In `output_buffers` four bytes are one whole group and
each remainder; base64 treats groups alike. In `pickle`, fields have their real
lengths, because `OtherKindRefused` depends on them. A binding's function keeps nothing
from one call to the next, but `CallAgain` repeats it in the same state.

Deadlock is checked except in runs that come to an end: `session_setup`, where two users may
have nothing left to do, and those of one walk, one input or one call (`megolm`,
`message_format`, `output_buffers`, `pickle`).

### Findings

- `pk_mac`: `olm_pk_encrypt` compares `mac_length` with the 8 bytes of the raw MAC (`olm/src/pk.cpp:116`)
  and writes the 11 characters of its encoding, while `olm/include/olm/pk.h:80` promises
  `OUTPUT_BUFFER_TOO_SMALL`. A caller that allocates `olm_pk_mac_length()` is not affected.
- `pickle_short`: a field that does not fit leaves the cursor at `end`, so the test
  `end != pos` of the two group sessions, with the comment "We had the wrong number of bytes in
  the input" (`olm/src/inbound_group_session.c:261`), does not see a pickle with too few bytes.
  The C++ functions pass `end + 1` to tell the two apart.

A third disagreement is shown by a run that passes and by two theorems: `olm/docs/megolm.rst:98-99`
says that a ratchet advances any amount with "at most 1023 hash computations", which would be
`4 * Radix - 1`. `HashesBounded` says that the most is `4 * (Radix - 1) + 6`, 1026 in the code, and that the
way from the first index to the last takes exactly that: each digit ticks `Radix - 1` times, and the last tick of each of the upper
three rehashes the parts below it too.

Seen while reading, and not checked by a run: base64 decoding refuses wrong
lengths but no wrong characters, while `olm.h` speaks of `INVALID_BASE64`;
loading into an object that already has lists appends to them; `last_error` keeps its
last value after a success; `new_inbound_session` with the peer's identity key
given reads the identity key of the message even when it has none;
`ext_utility.c:68` binds `ed25519_verify` to the function of `sha256`, so that lines 12-24 are called by
no method, and are not modelled; `sha256Jni` is documented to throw (`olm_utility.cpp:168`) and returns null instead;
`verifyEd25519SignatureJni` returns null, which stands for a valid signature, when it could not check one for want of memory.

## 4. Proofs

`DoubleRatchetProofs` proves for any capacities and gap (`RatchetLimits`: the
capacities are not zero), any bound on the number of messages, and two
distinct parties (`TwoParties`):

| theorem | |
|---|---|
| `Invariance` | `Spec => []SessionInv` |
| `TypeCorrect` | `Spec => []TypeOK` |
| `ReplayRefused` | `Spec => []NoReplay` |
| `ForwardSecrecy` | `Spec => []KeysErased` |
| `KeysUsedOnce` | `Spec => []NoKeyReuse` |
| `PeerKeyThere` | `Spec => []PeerKeyKnown` |
| `PreKeyUntilHeard` | `Spec => PreKeyUntilAnswered` |
| `ImplementsChannel` | `Spec => ChannelSpec`, a refinement |

None of these is inductive as stated. `NoReplay` says that an opened message
fails *now*; nothing in it says that a chain started later could not bring its key
back, or that a kept key is not kept twice. `SessionInv` adds what the code relies on:

- `KeysApart`, of each ratchet: receiver chains come newest first, each derived
  from a longer root key than the next; every kept key lies behind
  its own chain; no key is kept twice. So a chain that was dropped
  cannot come back (a new one has a longer root key), and erasing one kept key leaves no other copy.
- `OpenedAreGone`: for every opened message, the ratchet has no way left to its
  key (`Gone`). This is the heart of the argument: each step of `encrypt` and
  `decrypt` preserves `Gone` for *every* key, and the step that opens a message
  makes its own key gone.
- `SentAreBehind`: the sender chain is past the keys of all messages sent, so the
  next one has a fresh key.
- `Turns`: the two parties mix secrets in alternately, so one receives on chains
  of even and the other on chains of odd length. That keeps the messages of
  the two directions apart: a reflected message fails, and keys of different
  senders differ. It also gives `PeerKeyKnown`, since a ratchet without a
  sender chain has a receiver chain.
- `received_message` is set exactly when something was opened.

`ObjectProofs` has the facts about lists (elements after truncation, erasure,
insertion, restoring) and about accounts, and, for each piece of `decrypt` and
`encrypt`, its effect on every field, then that it preserves `KeysApart`,
`Turns` and `Gone`, and finally `DecryptOpens` and `GoneIsRefused`. `DoubleRatchetProofs`
has one lemma per action. Restoring a pickle is proved to give back the very ratchet
(`UnpickleIsIdentity`), because no list of a reachable ratchet is over its
capacity; restoring a longer list would not.

TLC checks `SessionInv` itself in `ratchet_limits`.

Its second part compares the two ends, under the same assumptions:

| theorem | |
|---|---|
| `InStep` | `Spec => []InStepInv` |
| `RootsStayInStep` | `Spec => []RootsInStep` |
| `ReceiverFollowsSender` | `Spec => []ReceiverBehindSender` |

`RootsInStep` alone would not survive a step: an end that replaces its root key by
the one a message leads to could jump past its peer, or aside. `InStepInv` adds that an end
without a sender chain has the same root key as its peer, for it has just received the
peer's newest chain, and that everything an end has sent is sealed under a head of its own root
key. So a message on a new chain can be opened only by the end behind, and takes it to exactly
the root key of the end ahead; and only an end that is level starts a chain. For the second
property: each ratchet key pair is made for one chain, and each receiver chain was
left by a message of the peer, whose key its sender is past (`SentAreBehind`).

The last part is about what a session must still be able to do:

| theorem | |
|---|---|
| `Reach` | `Spec => []ReachInv` |
| `OpensInReach` | `Spec => []Openable` |

`Openable` speaks of a session in the words of its history: which chains are newer, what was
passed over since. `ReachInv` ties that history to the three lists.

- `KeptBy`: a chain that an end has had is in its list, or the list is full of newer ones
  (`ChainsKept`). A chain stands one past the last message it opened, and each message
  before was opened or passed over (`Follows`). The key at place `j` of the history of passed keys has
  opened its message, or lies at place `j` of the kept keys *or before it*: those in front may have been
  used since (`PassedKept`).
- `NamesOf`: `decrypt` looks for a chain by its ratchet key but opens with its secret. Both name
  the same chain, among all that a peer has sent on and is about to (`OneToOne`), so the chain that is found is the
  message's own, and so is a kept key.
- `ChainsHad`: an end has opened a message of every chain of its peer whose root key is no longer than
  its own, so the only message on a chain it never had is one on the next chain.
- `NextRoot`: if the peer is ahead, the root key this end derives from its sender chain and the key
  in the message is the peer's. Here both ends must have answered the same chain
  (`AnswersPeer`): an end without a sender chain holds its peer's newest as its first (`NewestReceived`).

`KeptOpens` of `ObjectProofs` draws the conclusion for one ratchet. If the message's chain is in the list, the
message is at or after the chain's index, with a gap of what lies between, or before it, and then it was
passed over and its key is still kept. If the chain is not in the list, it is the next one, for otherwise
`MaxReceiverChains` newer ones were opened. The counting is exact: the number of messages `decrypt`
skips (`counter - index`) is the number between the last one opened and this one
(`BetweenAhead`), on which the limits of the property are stated.

No run states `ReachInv`, since it is defined with the proofs; `ratchet_limits` checks `Openable`.

The same module proves of `RestoredSessions`, for any limits and any bounds on the key pairs and
on the calls that are in no pickle:

| theorem | |
|---|---|
| `RestoredInvariance` | `RestoredSpec => []RestoredInv` |
| `SoundWhenRestored` | `RestoredSpec => []SessionInv` |
| `NeverAgain` | `RestoredSpec => []GoneForGood` |

`SessionInv` of the objects does not survive a `Restore` by itself: the peer might have opened
a message that the restored session has not sent. `RestoredInv` adds `SavedInv`, the parts of
`SessionInv` for each pickle with its own history, and `Ahead`: what a pickle has sent and opened is
a part of what its object has, what has left is exactly what the pickle has sent, and only what has
left was opened. So a restore puts one session back under a peer that saw nothing
of what is forgotten, and the steps proved for `DoubleRatchet` apply again.

`SessionSetupProofs` proves for any limits of the account and the ratchet, any number of one-time
keys, sessions and messages, and any damage:

| theorem | |
|---|---|
| `SetupInvariance` | `Spec => []SetupInv` |
| `EndsAgreeAlways` | `Spec => []EndsAgree` |
| `RoutedRightAlways` | `Spec => []RoutedRight` |
| `PreKeyReadableAlways` | `Spec => []PreKeyReadable` |
| `SessionsImplementChannel` | `Spec => ChannelSpec`, a refinement |

A damaged pre-key message sets up a session with keys that nobody else has, and there may be any number
of those. The properties speak of the sessions that have decrypted something; an invariant must speak of
all. `SetupInv` says of each user:

- The keys of a session and its secrets name each other (`Derived`): the secrets are those of the three keys, as the
  owner of the one-time key computes them, and the identity key in them may be damaged. So two
  sessions, or a session and a message, have the same secrets exactly if they have the same keys.
  `RoutedRight` follows, and `EndsAgree` with `SessionOK`: a session that has decrypted anything has opened a message of
  its own keys. Who owns the one-time key also tells which end a session is, and so on whose turn its
  messages are sealed (`TurnOf`), and that a user's own messages, sent back, are not taken for the peer's.
- The ratchet of every session is as the lemmas of `ObjectProofs` need it (`KeysApart`, `Turns`). No user has two
  sessions with the same keys (`Distinct`), since the application creates none for a message that
  a session will receive.
- The pre-key messages of the end that sends first are on the first chain of the session (`FirstSent`,
  `FirstSender`), and a session that has opened nothing else holds the key of all it
  has passed over there (`FirstKept`). One that is new starts at index 0. So `PreKeyReadable` holds of both.
- What was opened came from the peer, and no session of its keys can derive its key again (`Gone`). While the
  account has the one-time key, the session that opened something with it is there too (`OpenedOK`),
  so that no second one is set up for what was opened; this is where the order of the application's
  calls counts. The refinement of `Channel` rests on this part.
- The account has the one-time keys it was given, except those removed (`AccountOK`).

`PreKeyReadable` states the two limits of the ratchet as hypotheses; without them it is false as soon as more messages
are sent than a chain may skip.


`KeyUploadProofs` proves for any limit of the list (at least one), any number of keys and any
batch:

| theorem | |
|---|---|
| `UploadInvariance` | `Spec => []UploadInv` |
| `NewestAreKept` | `Spec => []NewestKept` |
| `ServableKeys` | `Spec => []ServableUnlessCrowdedOut` |
| `UsedKeysStayGone` | `Spec => []UsedKeysGone` |
| `DistinctIds` | `Spec => []UploadedIdsDistinct` |
| `MarkedWereTaken` | `Spec => []PublishedWereUploaded` |

`UploadInv` says of the account *and* of its last pickle that their keys are in the order of
their ids, that the newest ids are there unless used, and that marked keys were uploaded. `Match`
says that between any two places (account, pickle, what the outside world has seen) an id
and a key pair determine each other. The point is a restart: it takes the id counter back, and
the ids given next have been used for keys that are lost. They are harmless because whoever
saw a key was shown one that was in a pickle: every id known outside is at most
the pickle's counter, which is at most the account's. `NewestKept` survives the loss of the
end of a full list because the key at position `i` has an id of at most
`next + 1 - i`. That nothing is generated while a list is out (`listed`) gives
`PublishedWereUploaded`.

`MegolmProofs` and `MegolmWalkProofs` prove for digits of any radix of at least two, any
counters and any data:

| theorem | |
|---|---|
| `JumpArrives` | `AdvanceTo` ends at the index it was given |
| `JumpTwice` | two jumps in a row are one, if the three indexes are met in this order within one turn of the counter |
| `StepIsJump` | `Advance` is `AdvanceTo` the next index |
| `HashesOfACall`, `HashesAttained` | the HMACs of one call are at most `4 * (Radix - 1) + 6`, and from index 0 to the last one they are that many |
| `JumpIsWalkAlways` | `Spec => []JumpIsWalk` |
| `HashesBoundedAlways` | `Spec => []HashesBounded` |

There are four digits, so no induction over data is needed: the loop of `megolm_advance_to` is
four iterations, and the proof goes along them. After each, the ratchet of the direct jump and the one
that came by way of a middle index are either *together* (equal, with the same digits from there
up done) or *met* (the first one has just been reseeded where the other stood), and the
iteration on the next digit keeps that. The tick of a digit is the difference of two quotients, and
the special case for a wrap-around is what makes the difference of a whole turn a turn
and not nothing. `JumpIsWalk` is then an invariant of the walk by itself: the next step is a jump,
and two jumps are one.

`GroupChatProofs` proves for any readers, messages, keys and radix, with the assumption that a
conversation has fewer messages than half the range of indexes (`WithinHalf`: 2^31 in the code,
whose comparisons of 32-bit indexes are half-range tests):

| theorem | |
|---|---|
| `ChatInvariance` | `Spec => []ChatInv` |
| `ReadersReadHistory` | `Spec => []HistoryReadable` |
| `ReadersExportHistory` | `Spec => []HistoryExportable` |
| `VerifiedMeansEvidence` | `Spec => []VerifiedOnEvidence` |
| `ImplementsHistory` | `Spec => HistorySpec`, a refinement |

What a reader can open depends on its two ratchets, and both move: the properties would not
survive a step by themselves. `ChatInv` says of the sender that its ratchet is the one of its
index and that its messages have distinct indexes, below the pickle's if they have left, and from there on
if not, so that a restart takes no index back that anyone has seen (`SenderInv`). It says of
every session of a reader, and of its pickle, that the latest ratchet is the initial one advanced
(`OnWay`), so that whichever of the two `_get_megolm` takes leads to the same value: this is
`JumpTwice`. It follows that a session gives the sender's value at an index exactly if its initial ratchet
leads there, and then at every later index too (`JoinsUp`).

Nothing is assumed of what the damage left of a key but that it is a ratchet, so its counter may be one that no message
has, and the latest ratchet may have gone around the end of the range since, where it is the initial
one advanced no longer in the sense of `JumpTwice`. For that case `OnWay` has its second disjunct, `Past`: the
highest part is never reseeded, so its length in hashes tells how far it came, and one that went around the end is longer than the
sender's at any index of the conversation, and stays so. Such a session opens nothing.

`Evidence` ties the flag of a session to its own ratchet or to what was opened, and is kept by a restart because `opened`
only grows and because a pickle has the initial ratchet of its session. For the refinement, a
step that opens a message, writes one, or gives a reader a session or takes it away is mapped to that step of
`GroupHistory`; all others are stutters.

`MessageReadingProofs` proves for any bytes, any widths of the integers and any lengths of the trailers:

| theorem | |
|---|---|
| `FieldsInsideAlways` | `Spec => []FieldsInside` |
| `TooShortRefusedAlways` | `Spec => []TooShortRefused` |
| `TurnsGetOn` | `Spec => [][Skip => at'.pos > unknown /\ at'.pos <= End]_vars` |

`ReadingInv` says that the reader stands between the version and the trailer, that what it has found lies
behind it and apart, and that a turn of the loop which has read nothing is where it began. A varint yields
some number of its type (`VarintDecodeRange`) and is at least one byte if one is left (`VarintSkipRange`);
all else is the comparison of that number with what is left. `TurnsGetOn` is the safety half of
`Terminates`: a turn takes a byte at least, and there are finitely many. The assumptions are that inputs consist of bytes
(`InputsAreBytes`) and that a power of two is a positive number (`FormatRanges`), of
which the prover has no facts; TLC evaluates both. Where a proof is by induction on a number, it
takes a least counterexample (`LeastNumber`).

*Only model-checked:* `Openable` of the restored sessions (the theorem is about `DoubleRatchet`, where
a restart loses nothing); `ReadAsWritten`, and all of `OutputBuffers`, `Storage` and `BindingCalls`.
In the formats and the buffers the statement is about what a fold or a loop computes from data of any length,
with powers of 64, 128 and 256, so its proof is an induction over data; `BindingCalls` is about a list of functions,
and its run goes through all of it.

*Out of reach of the prover:* liveness (`Terminates`) and ENABLED, induction
over data, and recursive operators. The modules declare none: a loop of the
code is written as the sequence it computes, as a fold, or as steps.

## 5. Not modelled

- Cryptography and random bytes: pure functions, symbolic here. The vendored primitives
  are arithmetic and tables without state.
- A session, or the sender of a group, restored from a pickle older than a message that has already
  left: it seals two messages with one key, which the library cannot notice. Older pickles
  are modelled up to that order, as those of an account are up to the upload of its keys.
  The reader of a group may go back to any pickle.
- Indexes of a group session 2^31 or more apart that are asked for (those of a damaged counter are modelled), and ids of one-time
  keys beyond 2^32.
- A one-time key generated between listing and marking, which `mark_keys_as_published` would mark unseen: a guard of
  `Generate` excludes it.
- A pre-key message without the sender's identity key: this library always writes one.
- Two threads in one object: `readme.md` says that the interfaces are not thread safe.
- The accessors of the C interface and the bindings that only tell a length, a size, a flag or the last error.
- Of the bindings: what they clear before they release it, the Java classes
  above the native functions, and the Python and iOS bindings, whose memory is managed by the host.
- The fuzzers, the tests and the tracing tool.

## 6. Plan

Done: every component with state of its own, and the proofs above. What is left:

1. Restored sessions: `RootsInStep` and `ReceiverBehindSender` of them (a stale end's root key is
   still a head of its peer's), the refinement of `Channel`, and older pickles in `SessionSetup`,
   where an account and its sessions may be saved at different times.
2. Group sessions past half the range of indexes.
3. Proofs: `Openable` of restored sessions; that the calls of `OutputBuffers` which encode in place
   read each byte before it is written over, for raw bytes of any length.
