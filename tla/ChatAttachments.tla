--------------------------- MODULE ChatAttachments ---------------------------
(***************************************************************************)
(* Messages with files.  UploadChatAttachments stores every file under a   *)
(* temporary key, then opens a transaction in which it locks the chat,     *)
(* inserts the message and its attachments and copies the files to their   *)
(* final keys, commits, and deletes what the outcome leaves superfluous.   *)
(* Chats has the locks of the other use cases one by one; here each is one *)
(* step that waits for the locks an upload holds while the storage copies. *)
(* Roles are left out: they say who may manage a chat, not what happens to *)
(* its objects.                                                            *)
(***************************************************************************)
EXTENDS Naturals, FiniteSets

CONSTANTS
    Users, Chats,
    Direct,       \* the chats of two users
    Messages,     \* identifiers of messages, one for each upload
    Files,        \* the files of an upload, of which a message has some
    MaxFaults     \* bound: restarts and failed calls of the storage or of the database

ASSUME DirectAssumption == Direct \subseteq Chats
ASSUME MaxFaultsAssumption == MaxFaults \in Nat

VARIABLES
    users,        \* the users that exist
    live,         \* chats with deleted_at null
    active,       \* the active memberships
    message,      \* chat_messages: state of the row
    attached,     \* chat_message_attachments: files of a message
    stored,       \* the objects in the storage
    upload,
    left,         \* history: objects whose deletion failed or was interrupted
    unsure,       \* history: messages whose COMMIT was done and reported as failed
    faults        \* bounded counter

vars == <<users, live, active, message, attached, stored, upload, left, unsure, faults>>

\* A key is the area, the message and the file in it; the final keys also
\* have the chat, which the message determines.
Areas == {"temporary", "final"}
Keys == Areas \X Messages \X Files
Temporary(m, F) == {"temporary"} \X {m} \X F
Final(m, F) == {"final"} \X {m} \X F

Steps == {"none", "store", "check", "promote", "commit", "delete", "done"}
Upload == [pc : Steps, chat : Chats, author : Users, files : SUBSET Files,
           temporaryKeys : SUBSET Files, finalKeys : SUBSET Files]

TypeOK ==
    /\ users \subseteq Users /\ live \subseteq Chats /\ active \in [Chats -> SUBSET Users]
    /\ message \in [Messages -> {"none", "posted", "deleted"}]
    /\ attached \in [Messages -> SUBSET Files]
    /\ stored \subseteq Keys /\ left \subseteq Keys
    /\ upload \in [Messages -> Upload]
    /\ unsure \subseteq Messages /\ faults \in 0..MaxFaults

\* The chat and the author a message will have may be any from the start.
Init ==
    /\ users = Users /\ live = Chats /\ active = [c \in Chats |-> Users]
    /\ message = [m \in Messages |-> "none"] /\ attached = [m \in Messages |-> {}]
    /\ stored = {} /\ left = {} /\ unsure = {} /\ faults = 0
    /\ upload \in [Messages -> [pc : {"none"}, chat : Chats, author : Users,
                                files : {{}}, temporaryKeys : {{}}, finalKeys : {{}}]]

-----------------------------------------------------------------------------
rows == <<users, live, active, message, attached>>

\* requireActiveMember, requireAvailableSender
IsActiveMember(c, a) == c \in live /\ a \in active[c]
IsAvailableSender(c, a) == IsActiveMember(c, a) /\ (c \in Direct => Cardinality(active[c]) = 2)

\* The transaction of an upload holds the chat and the membership of its author.
Holds(m, c) == upload[m].chat = c /\ upload[m].pc \in {"promote", "commit"}
ChatFree(c) == \A m \in Messages : ~Holds(m, c)
MembershipFree(c, a) == \A m \in Messages : Holds(m, c) => upload[m].author # a

Goes(m, next) == upload' = [upload EXCEPT ![m] = next]

\* What is left to delete: without keys the upload is over.
Deletes(m, T, F) ==
    Goes(m, [upload[m] EXCEPT !.pc = IF T \cup F = {} THEN "done" ELSE "delete",
                              !.files = {}, !.temporaryKeys = T, !.finalKeys = F])

-----------------------------------------------------------------------------
(* UploadChatAttachments *)

\* The sender is checked before anything is stored, without a lock.
Begin(m, F) ==
    /\ upload[m].pc = "none" /\ IsAvailableSender(upload[m].chat, upload[m].author) /\ F # {}
    /\ Goes(m, [upload[m] EXCEPT !.pc = "store", !.files = F])
    /\ UNCHANGED <<rows, stored, left, unsure, faults>>

StoreTemporary(m, f) ==
    LET T == upload[m].temporaryKeys \cup {f}
    IN  /\ upload[m].pc = "store" /\ f \in upload[m].files \ upload[m].temporaryKeys
        /\ stored' = stored \cup Temporary(m, {f})
        /\ Goes(m, [upload[m] EXCEPT !.temporaryKeys = T, !.pc = IF T = upload[m].files THEN "check" ELSE @])
        /\ UNCHANGED <<rows, left, unsure, faults>>

(* (fault) the sender is not checked again *)
CheckChatOnly(m) ==
    /\ upload[m].pc = "check" /\ ChatFree(upload[m].chat) /\ upload[m].chat \in live
    /\ Goes(m, [upload[m] EXCEPT !.pc = "promote"])
    /\ UNCHANGED <<rows, stored, left, unsure, faults>>

\* The transaction: the chat and the membership are locked and checked again,
\* the rows are inserted, for nobody else to see yet.
CheckSender(m) ==
    /\ upload[m].pc = "check" /\ ChatFree(upload[m].chat)
    /\ MembershipFree(upload[m].chat, upload[m].author)
    /\ IsAvailableSender(upload[m].chat, upload[m].author)
    /\ Goes(m, [upload[m] EXCEPT !.pc = "promote"])
    /\ UNCHANGED <<rows, stored, left, unsure, faults>>

Promote(m, f) ==
    LET F == upload[m].finalKeys \cup {f}
    IN  /\ upload[m].pc = "promote" /\ f \in upload[m].files \ upload[m].finalKeys
        /\ stored' = stored \cup Final(m, {f})
        /\ Goes(m, [upload[m] EXCEPT !.finalKeys = F, !.pc = IF F = upload[m].files THEN "commit" ELSE @])
        /\ UNCHANGED <<rows, left, unsure, faults>>

(* (fault) the attachments are recorded by their keys *)
PostKeys(m) ==
    /\ message' = [message EXCEPT ![m] = "posted"]
    /\ attached' = [attached EXCEPT ![m] = Temporary(m, upload[m].files)]
    /\ UNCHANGED <<users, live, active>>

Post(m) ==
    /\ message' = [message EXCEPT ![m] = "posted"]
    /\ attached' = [attached EXCEPT ![m] = upload[m].files]
    /\ UNCHANGED <<users, live, active>>

(* (fault) the final objects are deleted with the temporary ones *)
CommitAndDeleteAll(m) ==
    /\ upload[m].pc = "commit" /\ Post(m)
    /\ Deletes(m, upload[m].temporaryKeys, upload[m].finalKeys)
    /\ UNCHANGED <<stored, left, unsure, faults>>

Commit(m) ==
    /\ upload[m].pc = "commit" /\ Post(m)
    /\ Deletes(m, upload[m].temporaryKeys, {})
    /\ UNCHANGED <<stored, left, unsure, faults>>

\* deleteObjects: all at once, a failure is logged.
DeleteObject(m, k) ==
    LET u == upload[m]
    IN  /\ u.pc = "delete" /\ k \in Temporary(m, u.temporaryKeys) \cup Final(m, u.finalKeys)
        /\ Deletes(m, {f \in u.temporaryKeys : k # <<"temporary", m, f>>}, {f \in u.finalKeys : k # <<"final", m, f>>})
        /\ \/ stored' = stored \ {k} /\ UNCHANGED <<left, faults>>
           \/ faults < MaxFaults /\ faults' = faults + 1 /\ left' = left \cup {k} /\ UNCHANGED stored
        /\ UNCHANGED <<rows, unsure>>

-----------------------------------------------------------------------------
(* Failures *)

\* catch: the transaction is rolled back, and every key the upload knows of is deleted.
RollsBack(m) == Deletes(m, upload[m].temporaryKeys, upload[m].finalKeys)

\* The sender is refused, a statement fails, a deadlock is broken.
Refuse(m) ==
    /\ upload[m].pc \in {"check", "promote", "commit"} /\ RollsBack(m)
    /\ UNCHANGED <<rows, stored, left, unsure, faults>>

\* The storage reports an error, although the object may be there.  The key is
\* remembered after the call.
StoreFails(m, f) ==
    /\ upload[m].pc = "store" /\ f \in upload[m].files \ upload[m].temporaryKeys
    /\ faults < MaxFaults /\ faults' = faults + 1
    /\ \/ stored' = stored \cup Temporary(m, {f}) /\ left' = left \cup Temporary(m, {f})
       \/ UNCHANGED <<stored, left>>
    /\ RollsBack(m)
    /\ UNCHANGED <<rows, unsure>>

(* (fault) the final key is remembered after the copy, as the temporary one is *)
PromoteFailsUnnoticed(m, f) ==
    /\ upload[m].pc = "promote" /\ f \in upload[m].files \ upload[m].finalKeys
    /\ faults < MaxFaults /\ faults' = faults + 1
    /\ stored' \in {stored, stored \cup Final(m, {f})}
    /\ RollsBack(m)
    /\ UNCHANGED <<rows, left, unsure>>

\* The final key is remembered before the copy.
PromoteFails(m, f) ==
    /\ upload[m].pc = "promote" /\ f \in upload[m].files \ upload[m].finalKeys
    /\ faults < MaxFaults /\ faults' = faults + 1
    /\ stored' \in {stored, stored \cup Final(m, {f})}
    /\ Deletes(m, upload[m].temporaryKeys, upload[m].finalKeys \cup {f})
    /\ UNCHANGED <<rows, left, unsure>>

\* The connection is lost after PostgreSQL has committed: COMMIT throws, and
\* the catch of the upload deletes the objects of a message that is posted.
CommitUnanswered(m) ==
    /\ upload[m].pc = "commit" /\ faults < MaxFaults /\ faults' = faults + 1
    /\ Post(m) /\ RollsBack(m) /\ unsure' = unsure \cup {m}
    /\ UNCHANGED <<stored, left>>

\* The objects an upload would still have deleted.
InHands(m) == Temporary(m, upload[m].temporaryKeys) \cup Final(m, upload[m].finalKeys)

Crash ==
    /\ faults < MaxFaults /\ faults' = faults + 1
    /\ left' = left \cup UNION {InHands(m) : m \in Messages}
    /\ upload' = [m \in Messages |-> [upload[m] EXCEPT !.pc = IF @ = "none" THEN @ ELSE "done",
                                                       !.files = {}, !.temporaryKeys = {}, !.finalKeys = {}]]
    /\ UNCHANGED <<rows, stored, unsure>>

-----------------------------------------------------------------------------
(* The other use cases: no one of them touches an object *)
Others == <<stored, upload, left, unsure, faults>>

\* LeaveChat, RemoveChatMember
Leave(c, a) ==
    /\ c \in live \ Direct /\ a \in active[c] /\ ChatFree(c)
    /\ active' = [active EXCEPT ![c] = @ \ {a}]
    /\ UNCHANGED <<users, live, message, attached, Others>>

\* AddChatMembers
Join(c, a) ==
    /\ c \in live \ Direct /\ active[c] # {} /\ a \in users \ active[c] /\ ChatFree(c)
    /\ active' = [active EXCEPT ![c] = @ \cup {a}]
    /\ UNCHANGED <<users, live, message, attached, Others>>

\* HandleDeletedUser: the statement waits for the memberships, not for the chats.
Deactivate(a) ==
    /\ a \in users /\ users' = users \ {a}
    /\ \A c \in Chats : a \in active[c] => MembershipFree(c, a)
    /\ active' = [c \in Chats |-> active[c] \ {a}]
    /\ UNCHANGED <<live, message, attached, Others>>

DeleteMessage(m) ==
    LET u == upload[m]
    IN  /\ message[m] = "posted" /\ ChatFree(u.chat) /\ IsActiveMember(u.chat, u.author)
        /\ message' = [message EXCEPT ![m] = "deleted"]
        /\ UNCHANGED <<users, live, active, attached, Others>>

DeleteChat(c) ==
    /\ c \in live /\ active[c] # {} /\ ChatFree(c)
    /\ live' = live \ {c}
    /\ UNCHANGED <<users, active, message, attached, Others>>

-----------------------------------------------------------------------------
Step(m) ==
    \/ \E f \in Files : StoreTemporary(m, f) \/ Promote(m, f) \/ StoreFails(m, f) \/ PromoteFails(m, f)
    \/ CheckSender(m) \/ Commit(m) \/ Refuse(m) \/ CommitUnanswered(m)
    \/ \E k \in Keys : DeleteObject(m, k)

Other ==
    \/ \E c \in Chats, a \in Users : Leave(c, a) \/ Join(c, a)
    \/ \E a \in Users : Deactivate(a)
    \/ \E m \in Messages : DeleteMessage(m)
    \/ \E c \in Chats : DeleteChat(c)

Next ==
    \/ \E m \in Messages, F \in SUBSET Files : Begin(m, F)
    \/ \E m \in Messages : Step(m)
    \/ Crash
    \/ Other

Spec == Init /\ [][Next]_vars

-----------------------------------------------------------------------------
(* Properties *)

\* Who may download an attachment gets it: its object was promoted before the
\* row is seen and is not deleted by any compensation, unless the answer to
\* the COMMIT was lost.
AttachmentHasObject == \A m \in Messages \ unsure : Final(m, attached[m]) \subseteq stored

\* A temporary object, or one under the chat without a row, is about to be
\* deleted by its upload, or one failed call or a restart has left it behind.
NoStrayObject ==
    \A k \in stored : k \in left
                      \/ \E m \in Messages : k \in InHands(m) \cup Final(m, attached[m])

\* However long the storage takes, a message with files is posted only by who
\* is an active member at that moment, into a chat that is not deleted.
PostedByMember ==
    [][\A m \in Messages : message[m] = "none" /\ message'[m] # "none" =>
           IsActiveMember(upload[m].chat, upload[m].author)]_vars
=============================================================================
