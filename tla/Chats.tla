-------------------------------- MODULE Chats --------------------------------
(***************************************************************************)
(* The use cases of the chats plugin as PostgreSQL transactions at READ    *)
(* COMMITTED.  Each takes the row locks the repositories ask for (select   *)
(* ... for update, update, the key-share locks of foreign keys) one after  *)
(* the other, checks each row when it has its lock, and writes at the end. *)
(* What it writes is seen by the others when it commits.                   *)
(***************************************************************************)
EXTENDS ChatRows

CONSTANTS
    Txs,
    Actors,         \* bound: the users that send requests
    MaxDeletions    \* bound: users that may be deleted

ASSUME ActorsAssumption == Actors \subseteq Users

VARIABLES
    tx,       \* the transactions of requests
    ghosts    \* history: memberships ended by the foreign key alone, with left_at still null

vars == <<rows, tx, ghosts>>

\* Use cases that work in one chat under its lock, and those that post a message.
InChat == {"send", "add", "remove", "leave", "rename", "markRead", "deleteChat"}
Posting == {"send", "add", "remove", "leave", "rename"}
Creating == {"createGroup", "createDirect"}
Ops == InChat \cup Creating \cup {"idle", "deleteMessage", "deleteUser"}

\* What a transaction does next: lock the chat, the membership of its actor, a
\* message, further memberships; insert; commit.  The last five are the
\* statements of HandleDeletedUser and the DELETE of the user.
Steps == {"idle", "chat", "member", "message", "rows", "write", "commit",
          "memberships", "authored", "created", "user", "references"}

Tx == [op : Ops, pc : Steps, actor : Users \cup {NoUser}, chat : Chats \cup {NoChat},
       targets : SUBSET Users, reply : Messages \cup {NoMessage}, post : Messages \cup {NoMessage},
       chats : SUBSET Chats, rows : SUBSET (Chats \X Users), messages : SUBSET Messages,   \* rows it has locked
       want : SUBSET Chats]                             \* chats whose membership rows deactivateUser has found

Idle == [op |-> "idle", pc |-> "idle", actor |-> NoUser, chat |-> NoChat, targets |-> {},
         reply |-> NoMessage, post |-> NoMessage, chats |-> {}, rows |-> {}, messages |-> {}, want |-> {}]

TypeOK ==
    /\ RowsTypeOK
    /\ tx \in [Txs -> Tx]
    /\ ghosts \subseteq Chats \X Users

Init == RowsInit /\ tx = [t \in Txs |-> Idle] /\ ghosts = {}

-----------------------------------------------------------------------------
(* Locks *)
ChatsFree(t, C) == \A s \in Txs \ {t} : C \cap tx[s].chats = {}
RowsFree(t, R) == \A s \in Txs \ {t} : R \cap tx[s].rows = {}
MessagesFree(t, M) == \A s \in Txs \ {t} : M \cap tx[s].messages = {}

\* The users a transaction inserts references to, and holds FOR KEY SHARE when
\* it has inserted them.
References(t) ==
    CASE tx[t].op \in {"add", "createGroup", "createDirect"} -> {tx[t].actor} \cup tx[t].targets
      [] tx[t].op \in {"send", "remove", "leave", "rename", "deleteMessage"} -> {tx[t].actor}
      [] OTHER -> {}
Shared(t) == IF tx[t].pc = "commit" THEN References(t) ELSE {}

\* The user whose row a transaction has deleted, before its commit.
Deleting(t) == IF tx[t].op = "deleteUser" /\ tx[t].pc = "references" THEN {tx[t].actor} ELSE {}

\* The pair of a direct chat that is inserted and not yet committed.
InsertedPair(t) ==
    IF tx[t].op = "createDirect" /\ tx[t].pc = "commit" THEN {{tx[t].actor} \cup tx[t].targets} ELSE {}

\* Identifiers of rows that somebody is about to insert.
FreshMessages == {m \in Messages : message[m] = FreeMessage /\ \A s \in Txs : tx[s].post # m}
FreshChats == {c \in Chats : chat[c] = FreeChat /\ \A s \in Txs : tx[s].op \in Creating => tx[s].chat # c}

\* The rows that refer to a user.
Joined(u) == {c \in Chats : member[c][u] # "none"}
Memberships(u, C) == {<<c, u>> : c \in C}
Authored(u) == {m \in Messages : message[m].author = u}
Created(u) == {c \in Chats : chat[c].creator = u}

-----------------------------------------------------------------------------
(* Requests *)
Start(t, request) == tx[t] = Idle /\ tx' = [tx EXCEPT ![t] = request] /\ UNCHANGED <<rows, ghosts>>

InChatRequest(op, a, c, S, r, m) ==
    [Idle EXCEPT !.op = op, !.pc = "chat", !.actor = a, !.chat = c, !.targets = S, !.reply = r, !.post = m]

BeginSend(t, a, c, r) == \E m \in FreshMessages :
    Start(t, InChatRequest("send", a, c, {}, r, m))
BeginAdd(t, a, c, S) == S \ {a} # {} /\ \E m \in FreshMessages :
    Start(t, InChatRequest("add", a, c, S \ {a}, NoMessage, m))
BeginRemove(t, a, c, u) == \E m \in FreshMessages :
    Start(t, InChatRequest("remove", a, c, {u}, NoMessage, m))
BeginLeave(t, a, c) == \E m \in FreshMessages :
    Start(t, InChatRequest("leave", a, c, {}, NoMessage, m))
BeginRename(t, a, c) == \E m \in FreshMessages :
    Start(t, InChatRequest("rename", a, c, {}, NoMessage, m))
BeginMarkRead(t, a, c) == Start(t, InChatRequest("markRead", a, c, {}, NoMessage, NoMessage))
BeginDeleteChat(t, a, c) == Start(t, InChatRequest("deleteChat", a, c, {}, NoMessage, NoMessage))

BeginDeleteMessage(t, a, m) ==
    Start(t, [Idle EXCEPT !.op = "deleteMessage", !.pc = "message", !.actor = a, !.reply = m])

\* The users are looked up outside the transaction.
BeginCreateGroup(t, a, S) ==
    /\ S \ {a} # {} /\ Cardinality(S \ {a}) + 1 <= MaxMembers /\ S \cup {a} \subseteq users
    /\ \E c \in FreshChats :
        Start(t, [Idle EXCEPT !.op = "createGroup", !.pc = "write", !.actor = a, !.chat = c, !.targets = S \ {a}])

\* A chat that is found at once is returned without a transaction.
BeginCreateDirect(t, a, b) ==
    /\ a # b /\ {a, b} \subseteq users /\ DirectChats({a, b}) = {}
    /\ \E c \in FreshChats :
        Start(t, [Idle EXCEPT !.op = "createDirect", !.pc = "write", !.actor = a, !.chat = c, !.targets = {b}])

\* deactivateUser: the statement finds its rows when it starts.
BeginDeleteUser(t, u) ==
    /\ u \in users
    /\ Cardinality(Users \ users) + Cardinality({s \in Txs : tx[s].op = "deleteUser"}) < MaxDeletions
    /\ Start(t, [Idle EXCEPT !.op = "deleteUser", !.pc = "memberships", !.actor = u,
                             !.want = Joined(u)])

\* A use case in a chat reads nothing before its first lock, so that requests
\* that would be refused now need not be started: they may start later.
RequestInChat(t, a, c) ==
    \/ \E r \in {m \in Posted(c) : ~message[m].deleted} \cup {NoMessage} : BeginSend(t, a, c, r)
    \/ BeginLeave(t, a, c) /\ CanBeRemoved(c, a)
    \/ BeginMarkRead(t, a, c)
    \/ BeginDeleteChat(t, a, c) /\ CanDelete(c, a)
    \/ /\ CanManage(c, a)
       /\ \/ \E S \in SUBSET users : BeginAdd(t, a, c, S)
          \/ \E u \in Users : CanBeRemoved(c, u) /\ BeginRemove(t, a, c, u)
          \/ BeginRename(t, a, c)

Request(t) ==
    \/ \E a \in Actors, c \in Chats : Live(c) /\ IsActive(c, a) /\ RequestInChat(t, a, c)
    \/ \E a \in Actors : \E m \in Authored(a) : ~message[m].deleted /\ BeginDeleteMessage(t, a, m)
    \/ \E a \in Actors \cap users, S \in SUBSET users : BeginCreateGroup(t, a, S)
    \/ \E a \in Actors \cap users, b \in users : BeginCreateDirect(t, a, b)
    \/ \E u \in users : BeginDeleteUser(t, u)

-----------------------------------------------------------------------------
(* Locks and checks of a use case in a chat *)
Go(t, pc, request) == tx' = [tx EXCEPT ![t] = [request EXCEPT !.pc = pc]] /\ UNCHANGED <<rows, ghosts>>

(* (fault) the membership is locked before the chat *)
LockMemberBeforeChat(t) ==
    LET row == <<tx[t].chat, tx[t].actor>>
    IN  /\ tx[t].pc = "chat"
        /\ \/ row \notin tx[t].rows /\ RowsFree(t, {row}) /\ Go(t, "chat", [tx[t] EXCEPT !.rows = {row}])
           \/ /\ row \in tx[t].rows /\ ChatsFree(t, {tx[t].chat}) /\ Live(tx[t].chat)
              /\ Go(t, "member", [tx[t] EXCEPT !.chats = {tx[t].chat}])

\* requireActiveMember: the chat row.
LockChat(t) ==
    /\ tx[t].pc = "chat" /\ ChatsFree(t, {tx[t].chat}) /\ Live(tx[t].chat)
    /\ Go(t, "member", [tx[t] EXCEPT !.chats = {tx[t].chat}])

\* What the use case asks of its actor, once the membership is locked.
MayAct(t) ==
    LET a == tx[t].actor
        c == tx[t].chat
    IN  CASE tx[t].op = "send" -> IsGroup(c) \/ ActiveMembers(c) = chat[c].key   \* isDirectChatAvailable
          [] tx[t].op = "add" -> CanManage(c, a) /\ tx[t].targets \subseteq users
          [] tx[t].op \in {"remove", "rename"} -> CanManage(c, a)
          [] tx[t].op = "leave" -> CanBeRemoved(c, a)
          [] tx[t].op = "deleteChat" -> CanDelete(c, a)
          [] tx[t].op = "deleteMessage" -> message[tx[t].reply].author = a /\ ~message[tx[t].reply].deleted
          [] OTHER -> TRUE

AfterMember(t) ==
    CASE tx[t].op = "send" /\ tx[t].reply # NoMessage -> "message"
      [] tx[t].op \in {"add", "remove"} -> "rows"
      [] tx[t].op \in {"markRead", "deleteChat"} -> "commit"
      [] OTHER -> "write"

\* requireActiveMember, requireManager: the row of the membership.
LockMember(t) ==
    /\ tx[t].pc = "member" /\ RowsFree(t, {<<tx[t].chat, tx[t].actor>>})
    /\ tx[t].actor \in users /\ IsActive(tx[t].chat, tx[t].actor) /\ MayAct(t)
    /\ Go(t, AfterMember(t), [tx[t] EXCEPT !.rows = {<<tx[t].chat, tx[t].actor>>}])

(* (fault) the answered message was looked at before its chat was locked *)
LockReplyUnseen(t) ==
    /\ tx[t].op = "send" /\ tx[t].pc = "message" /\ MessagesFree(t, {tx[t].reply})
    /\ Go(t, "write", [tx[t] EXCEPT !.messages = {tx[t].reply}])

\* The message that is answered is locked after its chat, ...
LockReply(t) ==
    /\ tx[t].op = "send" /\ tx[t].pc = "message" /\ MessagesFree(t, {tx[t].reply})
    /\ message[tx[t].reply].chat = tx[t].chat /\ ~message[tx[t].reply].deleted
    /\ Go(t, "write", [tx[t] EXCEPT !.messages = {tx[t].reply}])

\* ... the message that is deleted before it.
LockDeleted(t) ==
    /\ tx[t].op = "deleteMessage" /\ tx[t].pc = "message" /\ MessagesFree(t, {tx[t].reply})
    /\ Go(t, "chat", [tx[t] EXCEPT !.messages = {tx[t].reply}, !.chat = message[tx[t].reply].chat])

\* listByChat locks every membership of the chat, findActive that of the target.
FurtherRows(t) ==
    LET c == tx[t].chat
        U == IF tx[t].op = "add" THEN {u \in Users : member[c][u] # "none"} ELSE tx[t].targets
    IN  {<<c, u>> : u \in U} \ tx[t].rows

(* (fault) users that have left are not counted as new *)
WithinLimitOfStrangers(c, S) ==
    Cardinality(ActiveMembers(c) \cup {u \in S : member[c][u] = "none"}) <= MaxMembers

WithinLimit(c, S) == Cardinality(ActiveMembers(c) \cup S) <= MaxMembers

\* A statement takes its rows together, when all of them are free.
LockRows(t) ==
    /\ tx[t].pc = "rows" /\ RowsFree(t, FurtherRows(t))
    /\ tx[t].op = "add" => WithinLimit(tx[t].chat, tx[t].targets)
    /\ tx[t].op = "remove" => \A u \in tx[t].targets : CanBeRemoved(tx[t].chat, u)
    /\ Go(t, "write", [tx[t] EXCEPT !.rows = @ \cup FurtherRows(t)])

\* The foreign keys wait for the DELETE of a user they refer to, and need the
\* user; the new memberships of an addition are those of users not active.
Referring(t) ==
    IF tx[t].op = "add" THEN {tx[t].actor} \cup (tx[t].targets \ ActiveMembers(tx[t].chat)) ELSE References(t)

(* (fault) no foreign key checks that the users exist *)
WriteUnchecked(t) == tx[t].pc = "write" /\ tx[t].op # "createDirect" /\ Go(t, "commit", tx[t])

Write(t) ==
    /\ tx[t].pc = "write" /\ tx[t].op # "createDirect"
    /\ \A s \in Txs \ {t} : Referring(t) \cap Deleting(s) = {}
    /\ Referring(t) \subseteq users
    /\ Go(t, "commit", tx[t])

\* on conflict (direct_key) do nothing, after waiting for who inserts the same key.
Pair(t) == {tx[t].actor} \cup tx[t].targets

(* (fault) the insert does not wait for another one of the same key *)
InsertDirectAtOnce(t) ==
    /\ tx[t].pc = "write" /\ tx[t].op = "createDirect"
    /\ \A s \in Txs \ {t} : Pair(t) \cap Deleting(s) = {}
    /\ DirectChats(Pair(t)) = {} /\ Pair(t) \subseteq users
    /\ Go(t, "commit", tx[t])

InsertDirect(t) ==
    /\ tx[t].pc = "write" /\ tx[t].op = "createDirect"
    /\ \A s \in Txs \ {t} : Pair(t) \notin InsertedPair(s) /\ Pair(t) \cap Deleting(s) = {}
    /\ DirectChats(Pair(t)) = {} /\ Pair(t) \subseteq users
    /\ Go(t, "commit", tx[t])

\* The chat another request has created is returned instead.
FindDirect(t) ==
    /\ tx[t].pc = "write" /\ tx[t].op = "createDirect" /\ DirectChats(Pair(t)) # {}
    /\ Go(t, "idle", Idle)

-----------------------------------------------------------------------------
(* Commits *)
Ends(t) == tx' = [tx EXCEPT ![t] = Idle]
Commits(t, op) == tx[t].op = op /\ tx[t].pc = "commit" /\ Ends(t) /\ UNCHANGED ghosts

CommitGroup(t) == Commits(t, "createGroup") /\ WriteGroup(tx[t].chat, tx[t].actor, tx[t].targets)
CommitDirect(t) == Commits(t, "createDirect") /\ \E b \in tx[t].targets : WriteDirect(tx[t].chat, tx[t].actor, b)
CommitMessage(t) ==
    (Commits(t, "send") \/ Commits(t, "rename")) /\ WriteMessage(tx[t].post, tx[t].actor, tx[t].chat, tx[t].reply)
CommitMembers(t) ==
    Commits(t, "add") /\ WriteMembers(tx[t].post, tx[t].actor, tx[t].chat, tx[t].targets \ ActiveMembers(tx[t].chat))
CommitRemoved(t) ==
    Commits(t, "remove") /\ \E u \in tx[t].targets : WriteLeft(tx[t].post, tx[t].actor, tx[t].chat, u)
CommitLeft(t) == Commits(t, "leave") /\ WriteLeft(tx[t].post, tx[t].actor, tx[t].chat, tx[t].actor)
CommitDeletedMessage(t) == Commits(t, "deleteMessage") /\ WriteDeletedMessage(tx[t].reply)
CommitDeletedChat(t) == Commits(t, "deleteChat") /\ WriteDeletedChat(tx[t].chat)

(* (fault) every use case in the chat counts as a message *)
StampedByAll(s, c) == IF tx[s].pc \in {"write", "commit"} /\ tx[s].chat = c THEN {tx[s].post} ELSE {}

(* (fault) the time of a message is taken before its chat is locked *)
StampedAtOnce(s, c) == IF tx[s].op \in Posting /\ tx[s].chat = c THEN {tx[s].post} ELSE {}

\* A message gets its time before it is inserted and when the locks of its
\* use case are held; everything with an earlier time is read.
Stamped(s, c) == IF tx[s].op \in Posting /\ tx[s].pc \in {"write", "commit"} /\ tx[s].chat = c THEN {tx[s].post} ELSE {}

CommitRead(t) ==
    LET c == tx[t].chat
    IN  Commits(t, "markRead") /\ WriteRead(c, tx[t].actor, Posted(c) \cup UNION {Stamped(s, c) : s \in Txs})

-----------------------------------------------------------------------------
(* The deletion of a user *)

\* deactivateUser, anonymizeUser, anonymizeCreator
EndMemberships(t) ==
    LET R == Memberships(tx[t].actor, tx[t].want)
    IN  /\ tx[t].pc = "memberships" /\ RowsFree(t, R)
        /\ Go(t, "authored", [tx[t] EXCEPT !.rows = R])
AnonymizeMessages(t) ==
    /\ tx[t].pc = "authored" /\ MessagesFree(t, Authored(tx[t].actor))
    /\ Go(t, "created", [tx[t] EXCEPT !.messages = Authored(tx[t].actor)])
AnonymizeChats(t) ==
    /\ tx[t].pc = "created" /\ ChatsFree(t, Created(tx[t].actor))
    /\ Go(t, "user", [tx[t] EXCEPT !.chats = Created(tx[t].actor)])

\* The DELETE of the user waits for who refers to it or deletes it.
DeleteRow(t) ==
    /\ tx[t].pc = "user"
    /\ \A s \in Txs \ {t} : tx[t].actor \notin Shared(s) \cup Deleting(s)
    /\ tx[t].actor \in users
    /\ Go(t, "references", tx[t])

\* ON DELETE SET NULL on every row that still refers to the user; then the commit.
CommitDeletedUser(t) ==
    LET u == tx[t].actor
    IN  /\ tx[t].pc = "references"
        /\ RowsFree(t, Memberships(u, Joined(u)))
        /\ MessagesFree(t, Authored(u))
        /\ ChatsFree(t, Created(u))
        /\ WriteDeletedUser(u)
        /\ ghosts' = ghosts \cup Memberships(u, {c \in Chats : IsActive(c, u) /\ c \notin tx[t].want})
        /\ Ends(t)

-----------------------------------------------------------------------------
\* A refusal, a violated constraint, a deadlock, a lost connection or a crash.
Rollback(t) == tx[t] # Idle /\ Go(t, "idle", Idle)

Commit(t) ==
    \/ CommitGroup(t) \/ CommitDirect(t) \/ CommitMessage(t) \/ CommitMembers(t) \/ CommitRemoved(t)
    \/ CommitLeft(t) \/ CommitDeletedMessage(t) \/ CommitDeletedChat(t) \/ CommitRead(t) \/ CommitDeletedUser(t)

Lock(t) ==
    \/ LockChat(t) \/ LockMember(t) \/ LockReply(t) \/ LockDeleted(t) \/ LockRows(t)
    \/ Write(t) \/ InsertDirect(t) \/ FindDirect(t)
    \/ EndMemberships(t) \/ AnonymizeMessages(t) \/ AnonymizeChats(t) \/ DeleteRow(t)

Next == \E t \in Txs : Request(t) \/ Lock(t) \/ Commit(t) \/ Rollback(t)

Spec == Init /\ [][Next]_vars

-----------------------------------------------------------------------------
(* Properties *)

\* The use cases, lock by lock, do what single steps would do: nobody writes
\* in a chat by a membership, a role or a message that is gone at the commit.
Atomic == INSTANCE ChatsAtomic WITH
    users <- users, chat <- chat, member <- member, read <- read, message <- message
WorksAtomically == Atomic!Spec

\* "Everything up to now is read" covers no message that nobody could have seen.
OnlyPostedIsRead == \A c \in Chats, u \in Users : read[c][u] \subseteq Posted(c)

\* Two additions at a time do not exceed the limit of participants.
LimitKept == \A c \in Chats : Live(c) /\ IsGroup(c) => Cardinality(ActiveMembers(c)) <= MaxMembers

\* A pair of users has one direct chat, and both are in it as long as they exist.
OneChatPerPair ==
    \A c \in Chats : Live(c) /\ ~IsGroup(c) =>
        /\ DirectChats(chat[c].key) = {c}
        /\ ActiveMembers(c) = chat[c].key \cap users

\* Whom t waits for.
WaitsFor(t, s) ==
    LET u == tx[t].actor
        c == tx[t].chat
    IN  /\ s # t
        /\ CASE tx[t].pc = "chat" -> c \in tx[s].chats
             [] tx[t].pc = "member" -> <<c, u>> \in tx[s].rows
             [] tx[t].pc = "message" -> tx[t].reply \in tx[s].messages
             [] tx[t].pc = "rows" -> FurtherRows(t) \cap tx[s].rows # {}
             [] tx[t].pc = "write" -> Referring(t) \cap Deleting(s) # {} \/ (tx[t].op = "createDirect" /\ Pair(t) \in InsertedPair(s))
             [] tx[t].pc = "memberships" -> Memberships(u, tx[t].want) \cap tx[s].rows # {}
             [] tx[t].pc = "authored" -> Authored(u) \cap tx[s].messages # {}
             [] tx[t].pc = "created" -> Created(u) \cap tx[s].chats # {}
             [] tx[t].pc = "user" -> u \in Shared(s) \cup Deleting(s)
             [] tx[t].pc = "references" -> \/ Memberships(u, Joined(u)) \cap tx[s].rows # {}
                                           \/ Authored(u) \cap tx[s].messages # {}
                                           \/ Created(u) \cap tx[s].chats # {}
             [] OTHER -> FALSE

\* Requests wait for each other in a circle only if one of them deletes a
\* message or a user: all others lock the chat first, then its rows.
DeadlockNeedsDeletion ==
    \A D \in SUBSET Txs :
        D # {} /\ (\A t \in D : \E s \in D : WaitsFor(t, s)) => \E t \in D : tx[t].op \in {"deleteMessage", "deleteUser"}

\* The memberships of a deleted user are ended: left_at is set.  Not kept by
\* the code: the README names an instance with a counterexample.
DeletedUserHasLeft == ghosts = {}
=============================================================================
