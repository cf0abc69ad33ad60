---------------------------- MODULE Chats_proofs ----------------------------
(***************************************************************************)
(* Proofs about Chats, for any sets of users, chats, messages and requests *)
(* that run at the same time.  IInv says what a request knows of the rows  *)
(* it has locked (Safe), and what no two requests hold together (Apart);   *)
(* Kept is what a commit leaves alone of what another request relies on.   *)
(***************************************************************************)
EXTENDS Chats, FiniteSetTheorems, TLAPS

(* What the steps of each kind of request are, and what it carries. *)
Formed(x) ==
    /\ x.op = "idle" => x = Idle
    /\ x.op # "idle" => x.actor \in Users
    /\ x.op \in InChat =>
          /\ x.pc \in {"chat", "member", "message", "rows", "write", "commit"}
          /\ x.chat \in Chats
          /\ x.pc = "chat" => x.chats = {}
          /\ x.pc \in {"chat", "member"} => x.rows = {} /\ x.messages = {}
    /\ x.op \in Creating => /\ x.pc \in {"write", "commit"} /\ x.chat \in Chats
                            /\ x.chats = {} /\ x.rows = {} /\ x.messages = {}
    /\ x.op = "deleteMessage" => /\ x.pc \in {"message", "chat", "member", "write", "commit"}
                                 /\ x.reply \in Messages
                                 /\ x.pc # "message" => x.chat \in Chats
    /\ x.op = "deleteUser" => x.pc \in {"memberships", "authored", "created", "user", "references"}
    /\ x.pc = "rows" => x.op \in {"add", "remove"}
    /\ x.pc = "message" => x.op \in {"send", "deleteMessage"} /\ x.reply \in Messages
    /\ x.op \in Posting => x.post \in Messages
    /\ x.op \in InChat => x.messages \subseteq {x.reply}
    /\ x.op \in InChat \ {"send"} => x.reply = NoMessage
    /\ x.op = "remove" => \E u \in Users : x.targets = {u}
    /\ x.op = "createGroup" => /\ x.targets # {} /\ x.actor \notin x.targets
                               /\ Cardinality(x.targets) + 1 <= MaxMembers
    /\ x.op = "createDirect" => \E u \in Users : u # x.actor /\ x.targets = {u}
    /\ x.op \in InChat => x.rows \subseteq {x.chat} \X Users

(* Requests that work in one chat, from the lock of the chat and from that of the membership on. *)
Works(x) == x.op \in InChat \/ x.op = "deleteMessage"
HoldsMember(x) == Works(x) /\ (x.pc \in {"rows", "write", "commit"} \/ (x.pc = "message" /\ x.op = "send"))
HoldsChat(x) == HoldsMember(x) \/ (Works(x) /\ x.pc = "member")
Writes(x) == x.pc \in {"write", "commit"}

(* Users that a commit needs, and the user a transaction has deleted. *)
Refs(x) ==
    IF x.pc # "commit" THEN {}
    ELSE IF x.op \in Creating THEN {x.actor} \cup x.targets
    ELSE IF x.op = "add" THEN x.targets \ ActiveMembers(x.chat)
    ELSE {}
Deleted(x) == IF x.op = "deleteUser" /\ x.pc = "references" THEN {x.actor} ELSE {}
PairOf(x) == {x.actor} \cup x.targets

Role(x) ==
    /\ IsActive(x.chat, x.actor)
    /\ x.op \in {"add", "remove", "rename"} => CanManage(x.chat, x.actor)
    /\ x.op = "leave" => CanBeRemoved(x.chat, x.actor)
    /\ x.op = "deleteChat" => CanDelete(x.chat, x.actor)

SafeChat(x) == HoldsChat(x) => x.chat \in x.chats /\ Live(x.chat)
SafeMember(x) == HoldsMember(x) => <<x.chat, x.actor>> \in x.rows /\ Role(x)
SafeRows(x) ==
    Writes(x) =>
        /\ x.op = "add" =>
              /\ \A u \in Users : member[x.chat][u] # "none" => <<x.chat, u>> \in x.rows
              /\ WithinLimit(x.chat, x.targets)
        /\ x.op = "remove" => \A u \in x.targets : <<x.chat, u>> \in x.rows /\ CanBeRemoved(x.chat, u)
SafeReply(x) ==
    x.op = "send" /\ x.reply # NoMessage =>
        /\ x.reply \in Messages /\ message[x.reply].chat = x.chat
        /\ Writes(x) => x.reply \in x.messages /\ ~message[x.reply].deleted
SafeDeleted(x) ==
    x.op = "deleteMessage" =>
        /\ message[x.reply].chat \in Chats
        /\ x.pc # "message" => x.reply \in x.messages /\ message[x.reply].chat = x.chat
        /\ Writes(x) => message[x.reply].author = x.actor /\ ~message[x.reply].deleted
SafeNew(x) ==
    /\ x.op \in Posting => message[x.post] = FreeMessage
    /\ x.op \in Creating => chat[x.chat] = FreeChat
    /\ x.op = "createDirect" /\ x.pc = "commit" => DirectChats(PairOf(x)) = {}
SafeUsers(x) == Refs(x) \subseteq users /\ Deleted(x) \subseteq users

Safe(x) ==
    /\ SafeChat(x) /\ SafeMember(x) /\ SafeRows(x) /\ SafeReply(x)
    /\ SafeDeleted(x) /\ SafeNew(x) /\ SafeUsers(x)

Apart(x, y) ==
    /\ x.chats \cap y.chats = {} /\ x.rows \cap y.rows = {} /\ x.messages \cap y.messages = {}
    /\ x.op \in Posting /\ y.op \in Posting => x.post # y.post
    /\ x.op \in Creating /\ y.op \in Creating => x.chat # y.chat
    /\ x.op = "createDirect" /\ y.op = "createDirect" /\ x.pc = "commit" /\ y.pc = "commit" => PairOf(x) # PairOf(y)
    /\ Deleted(x) \cap (Refs(y) \cup Deleted(y)) = {}
    /\ Deleted(y) \cap Refs(x) = {}

MembersExist == \A c \in Chats : ActiveMembers(c) \subseteq users
FreeIsEmpty == \A m \in Messages : message[m].chat = NoChat => message[m] = FreeMessage
RowsInv == MembersExist /\ FreeIsEmpty /\ OnlyPostedIsRead /\ LimitKept /\ OneChatPerPair

IInv ==
    /\ TypeOK /\ RowsInv
    /\ \A t \in Txs : Formed(tx[t]) /\ Safe(tx[t])
    /\ \A s, t \in Txs : s # t => Apart(tx[s], tx[t])

-----------------------------------------------------------------------------
(* Types *)

LEMMA NullTypes ==
    /\ FreeChat \in ChatRow /\ FreeMessage \in MessageRow /\ Idle \in Tx
    /\ Idle.op = "idle" /\ Idle.pc = "idle" /\ Idle.chats = {} /\ Idle.rows = {} /\ Idle.messages = {}
BY DEF FreeChat, ChatRow, FreeMessage, MessageRow, Idle, Tx, Ops, InChat, Creating, Steps

(* What has no locks and no identifiers disturbs nobody and relies on nothing. *)
LEMMA IdleSafe == Formed(Idle) /\ Safe(Idle) /\ \A y : Apart(Idle, y) /\ Apart(y, Idle)
BY NullTypes DEF Formed, Safe, SafeChat, SafeMember, SafeRows, SafeReply, SafeDeleted, SafeNew, SafeUsers,
    HoldsChat, HoldsMember, Works, Writes, Refs, Deleted, Apart, InChat, Creating, Posting

LEMMA ApartSymmetric == ASSUME NEW x, NEW y, Apart(x, y) PROVE Apart(y, x)
BY DEF Apart

(* A request that goes on, and writes nothing yet. *)
LEMMA GoesOn ==
    ASSUME IInv, NEW t \in Txs, NEW y \in Tx, tx' = [tx EXCEPT ![t] = y], UNCHANGED <<rows, ghosts>>,
           Formed(y), Safe(y), \A s \in Txs \ {t} : Apart(y, tx[s])
    PROVE  IInv'
<1>1. \A s \in Txs : tx'[s] = IF s = t THEN y ELSE tx[s]
  BY DEF IInv, TypeOK
<1>2. TypeOK'
  BY DEF IInv, TypeOK, RowsTypeOK, rows
<1>3. RowsInv'
  BY DEF IInv, RowsInv, rows, MembersExist, FreeIsEmpty, OnlyPostedIsRead, LimitKept, OneChatPerPair,
         ActiveMembers, IsActive, Posted, Live, IsGroup, DirectChats
<1>4. ASSUME NEW s \in Txs PROVE (Formed(tx[s]) /\ Safe(tx[s]))'
  <2>1. Formed(tx'[s]) /\ Safe(tx'[s])
    BY <1>1 DEF IInv
  <2> QED
    BY <2>1 DEF rows, Formed, Safe, SafeChat, SafeMember, SafeRows, SafeReply, SafeDeleted, SafeNew, SafeUsers,
      HoldsChat, HoldsMember, Works, Writes, Refs, Deleted, Role, WithinLimit, CanManage, CanBeRemoved, CanDelete,
      ActiveMembers, IsActive, Live, IsGroup, DirectChats, PairOf
<1>5. ASSUME NEW s \in Txs, NEW r \in Txs, s # r PROVE Apart(tx[s], tx[r])'
  <2>1. Apart(tx'[s], tx'[r])
    BY <1>1, <1>5, ApartSymmetric DEF IInv
  <2> QED
    BY <2>1 DEF rows, Apart, Refs, Deleted, PairOf, ActiveMembers, IsActive
<1> QED
  BY <1>2, <1>3, <1>4, <1>5 DEF IInv

-----------------------------------------------------------------------------
(* Steps that lock and check *)

(* A request that keeps what it is, and whose locks nobody else has. *)
LEMMA ApartLocks ==
    ASSUME NEW x \in Tx, NEW y \in Tx, NEW z \in Tx, Apart(x, z),
           y.op = x.op, y.actor = x.actor, y.targets = x.targets, y.post = x.post,
           y.op \in Creating => y.chat = x.chat, y.pc \notin {"commit", "references"},
           y.chats \cap z.chats = {}, y.rows \cap z.rows = {}, y.messages \cap z.messages = {}
    PROVE  Apart(y, z)
BY DEF Apart, Refs, Deleted, PairOf

LEMMA OnLockChat ==
    ASSUME IInv, NEW t \in Txs, LockChat(t)
    PROVE  IInv'
<1> DEFINE x == tx[t]
           y == [x EXCEPT !.chats = {x.chat}, !.pc = "member"]
<1>1. /\ x \in Tx /\ Formed(x) /\ Safe(x)
      /\ \A s \in Txs \ {t} : tx[s] \in Tx /\ Apart(x, tx[s])
  BY DEF IInv, TypeOK
<1>2. /\ tx' = [tx EXCEPT ![t] = y] /\ UNCHANGED <<rows, ghosts>>
      /\ x.pc = "chat" /\ Live(x.chat) /\ \A s \in Txs \ {t} : {x.chat} \cap tx[s].chats = {}
  BY <1>1 DEF LockChat, Go, ChatsFree, Tx
<1>3. x.chat \in Chats /\ Works(x)
  BY <1>1, <1>2, NullTypes DEF Formed, Works, Creating, Ops, Tx
<1>4. /\ y \in Tx /\ y.pc = "member" /\ y.chats = {x.chat} /\ y.op = x.op /\ y.actor = x.actor /\ y.chat = x.chat
      /\ y.targets = x.targets /\ y.reply = x.reply /\ y.post = x.post /\ y.rows = x.rows /\ y.messages = x.messages
  BY <1>1, <1>3 DEF Tx, Steps
<1> HIDE DEF x, y
<1>5. Formed(y)
  BY <1>1, <1>2, <1>3, <1>4 DEF Formed, Works, InChat, Creating
<1>6. Safe(y)
  BY <1>1, <1>2, <1>3, <1>4 DEF Safe, SafeChat, SafeMember, SafeRows, SafeReply, SafeDeleted, SafeNew, SafeUsers,
     HoldsChat, HoldsMember, Works, Writes, Refs, Deleted
<1>7. \A s \in Txs \ {t} : Apart(y, tx[s])
  BY <1>1, <1>2, <1>4, ApartLocks DEF Apart
<1> QED
  BY <1>2, <1>4, <1>5, <1>6, <1>7, GoesOn
LEMMA Known ==
    ASSUME IInv, NEW t \in Txs
    PROVE  /\ tx[t] \in Tx /\ Formed(tx[t]) /\ Safe(tx[t])
           /\ \A s \in Txs \ {t} : tx[s] \in Tx /\ Apart(tx[t], tx[s])
BY DEF IInv, TypeOK

LEMMA OnLockMember ==
    ASSUME IInv, NEW t \in Txs, LockMember(t)
    PROVE  IInv'
<1> DEFINE x == tx[t]
           y == [x EXCEPT !.rows = {<<x.chat, x.actor>>}, !.pc = AfterMember(t)]
<1>1. /\ x \in Tx /\ Formed(x) /\ Safe(x)
      /\ \A s \in Txs \ {t} : tx[s] \in Tx /\ Apart(x, tx[s])
  BY Known
<1>2. /\ tx' = [tx EXCEPT ![t] = y] /\ UNCHANGED <<rows, ghosts>>
      /\ x.pc = "member" /\ \A s \in Txs \ {t} : {<<x.chat, x.actor>>} \cap tx[s].rows = {}
      /\ IsActive(x.chat, x.actor) /\ MayAct(t)
  BY <1>1 DEF LockMember, Go, RowsFree, Tx
<1>3. x.chat \in Chats /\ x.actor \in Users /\ Works(x)
  BY <1>1, <1>2, NullTypes DEF Formed, Works, Creating, Ops, Tx, InChat
<1>4. /\ AfterMember(t) \in {"message", "rows", "write", "commit"}
      /\ AfterMember(t) = "message" => x.op = "send" /\ x.reply # NoMessage
      /\ AfterMember(t) = "rows" => x.op \in {"add", "remove"}
      /\ AfterMember(t) = "commit" => x.op \in {"markRead", "deleteChat"}
      /\ AfterMember(t) = "write" => x.op \notin {"add", "remove"} /\ ~(x.op = "send" /\ x.reply # NoMessage)
      /\ {<<x.chat, x.actor>>} \in SUBSET (Chats \X Users) /\ {<<x.chat, x.actor>>} \subseteq {x.chat} \X Users
  BY <1>3 DEF AfterMember
<1>5. /\ y \in Tx /\ y.pc = AfterMember(t) /\ y.chats = x.chats /\ y.op = x.op /\ y.actor = x.actor /\ y.chat = x.chat
      /\ y.targets = x.targets /\ y.reply = x.reply /\ y.post = x.post /\ y.rows = {<<x.chat, x.actor>>}
      /\ y.messages = x.messages
  BY <1>1, <1>3, <1>4 DEF Tx, Steps
<1>6. Role(y) /\ (y.op = "deleteMessage" => message[y.reply].author = y.actor /\ ~message[y.reply].deleted)
  BY <1>2, <1>5 DEF Role, MayAct
<1> HIDE DEF x, y
<1>7. Formed(y)
  BY <1>1, <1>2, <1>3, <1>4, <1>5 DEF Formed, Works, InChat, Creating, Tx
<1>8. Safe(y)
  BY <1>1, <1>2, <1>3, <1>4, <1>5, <1>6 DEF Safe, SafeChat, SafeMember, SafeRows, SafeReply, SafeDeleted, SafeNew, SafeUsers,
     HoldsChat, HoldsMember, Works, Writes, Refs, Deleted, InChat, Creating
<1>9. \A s \in Txs \ {t} : Apart(y, tx[s])
  <2> SUFFICES ASSUME NEW s \in Txs \ {t} PROVE Apart(y, tx[s])
    OBVIOUS
  <2>1. CASE y.pc # "commit"
    BY <1>1, <1>2, <1>4, <1>5, <2>1, ApartLocks DEF Apart
  <2>2. CASE y.pc = "commit"
    BY <1>1, <1>2, <1>4, <1>5, <2>2 DEF Apart, Refs, Deleted, Creating, Posting
  <2> QED
    BY <2>1, <2>2
<1> QED
  BY <1>2, <1>5, <1>7, <1>8, <1>9, GoesOn

LEMMA OnLockReply ==
    ASSUME IInv, NEW t \in Txs, LockReply(t)
    PROVE  IInv'
<1> DEFINE x == tx[t]
           y == [x EXCEPT !.messages = {x.reply}, !.pc = "write"]
<1>1. /\ x \in Tx /\ Formed(x) /\ Safe(x)
      /\ \A s \in Txs \ {t} : tx[s] \in Tx /\ Apart(x, tx[s])
  BY Known
<1>2. /\ tx' = [tx EXCEPT ![t] = y] /\ UNCHANGED <<rows, ghosts>>
      /\ x.op = "send" /\ x.pc = "message" /\ \A s \in Txs \ {t} : {x.reply} \cap tx[s].messages = {}
      /\ message[x.reply].chat = x.chat /\ ~message[x.reply].deleted
  BY <1>1 DEF LockReply, Go, MessagesFree, Tx
<1>3. x.chat \in Chats /\ Works(x) /\ x.reply \in Messages
  BY <1>1, <1>2 DEF Formed, Works, InChat, Tx
<1>4. /\ y \in Tx /\ y.pc = "write" /\ y.chats = x.chats /\ y.op = x.op /\ y.actor = x.actor /\ y.chat = x.chat
      /\ y.targets = x.targets /\ y.reply = x.reply /\ y.post = x.post /\ y.rows = x.rows /\ y.messages = {x.reply}
  BY <1>1, <1>3 DEF Tx, Steps
<1> HIDE DEF x, y
<1>5. Formed(y)
  BY <1>1, <1>2, <1>3, <1>4 DEF Formed, Works, InChat, Creating
<1>6. Safe(y)
  BY <1>1, <1>2, <1>3, <1>4 DEF Safe, SafeChat, SafeMember, SafeRows, SafeReply, SafeDeleted, SafeNew, SafeUsers,
     HoldsChat, HoldsMember, Works, Writes, Refs, Deleted, InChat, Creating, Role
<1>7. \A s \in Txs \ {t} : Apart(y, tx[s])
  BY <1>1, <1>2, <1>4, ApartLocks DEF Apart
<1> QED
  BY <1>2, <1>4, <1>5, <1>6, <1>7, GoesOn
LEMMA OnLockDeleted ==
    ASSUME IInv, NEW t \in Txs, LockDeleted(t)
    PROVE  IInv'
<1> DEFINE x == tx[t]
           y == [x EXCEPT !.messages = {x.reply}, !.chat = message[x.reply].chat, !.pc = "chat"]
<1>1. /\ x \in Tx /\ Formed(x) /\ Safe(x)
      /\ \A s \in Txs \ {t} : tx[s] \in Tx /\ Apart(x, tx[s])
  BY Known
<1>2. /\ tx' = [tx EXCEPT ![t] = y] /\ UNCHANGED <<rows, ghosts>>
      /\ x.op = "deleteMessage" /\ x.pc = "message" /\ \A s \in Txs \ {t} : {x.reply} \cap tx[s].messages = {}
  BY <1>1 DEF LockDeleted, MessagesFree, Go, Tx
<1>3. x.reply \in Messages /\ message[x.reply].chat \in Chats
  BY <1>1, <1>2 DEF Formed, Safe, SafeDeleted
<1>4. /\ y \in Tx /\ y.pc = "chat" /\ y.chats = x.chats /\ y.op = x.op /\ y.actor = x.actor /\ y.chat = message[x.reply].chat
      /\ y.targets = x.targets /\ y.reply = x.reply /\ y.post = x.post /\ y.rows = x.rows /\ y.messages = {x.reply}
  BY <1>1, <1>2, <1>3 DEF Tx, Steps
<1> HIDE DEF x, y
<1>5. Formed(y)
  BY <1>1, <1>2, <1>3, <1>4, NullTypes DEF Formed, Works, InChat, Creating
<1>6. Safe(y)
  BY <1>1, <1>2, <1>3, <1>4 DEF Safe, SafeChat, SafeMember, SafeRows, SafeReply, SafeDeleted, SafeNew, SafeUsers,
     HoldsChat, HoldsMember, Works, Writes, Refs, Deleted, InChat, Creating
<1>7. \A s \in Txs \ {t} : Apart(y, tx[s])
  BY <1>1, <1>2, <1>4, ApartLocks DEF Apart, Creating
<1> QED
  BY <1>2, <1>4, <1>5, <1>6, <1>7, GoesOn

LEMMA OnLockRows ==
    ASSUME IInv, NEW t \in Txs, LockRows(t)
    PROVE  IInv'
<1> DEFINE x == tx[t]
           y == [x EXCEPT !.rows = x.rows \cup FurtherRows(t), !.pc = "write"]
<1>1. /\ x \in Tx /\ Formed(x) /\ Safe(x)
      /\ \A s \in Txs \ {t} : tx[s] \in Tx /\ Apart(x, tx[s])
  BY Known
<1>2. /\ tx' = [tx EXCEPT ![t] = y] /\ UNCHANGED <<rows, ghosts>>
      /\ x.pc = "rows" /\ \A s \in Txs \ {t} : FurtherRows(t) \cap tx[s].rows = {}
      /\ x.op = "add" => WithinLimit(x.chat, x.targets)
      /\ x.op = "remove" => \A u \in x.targets : CanBeRemoved(x.chat, u)
  BY <1>1 DEF LockRows, RowsFree, Go, Tx
<1>3. /\ x.chat \in Chats /\ x.targets \subseteq Users /\ x.op \in {"add", "remove"}
      /\ FurtherRows(t) \subseteq {x.chat} \X Users
      /\ x.op = "add" => \A u \in Users : member[x.chat][u] # "none" => <<x.chat, u>> \in x.rows \cup FurtherRows(t)
      /\ x.op = "remove" => \A u \in x.targets : <<x.chat, u>> \in x.rows \cup FurtherRows(t)
  BY <1>1, <1>2 DEF Formed, FurtherRows, Tx, InChat
<1>4. /\ y \in Tx /\ y.pc = "write" /\ y.chats = x.chats /\ y.op = x.op /\ y.actor = x.actor /\ y.chat = x.chat
      /\ y.targets = x.targets /\ y.reply = x.reply /\ y.post = x.post /\ y.rows = x.rows \cup FurtherRows(t) /\ y.messages = x.messages
  BY <1>1, <1>2, <1>3 DEF Tx, Steps
<1> HIDE DEF x, y
<1>5. Formed(y)
  BY <1>1, <1>2, <1>3, <1>4, NullTypes DEF Formed, Works, InChat, Creating
<1>6. Safe(y)
  BY <1>1, <1>2, <1>3, <1>4 DEF Safe, SafeChat, SafeMember, SafeRows, SafeReply, SafeDeleted, SafeNew, SafeUsers,
     HoldsChat, HoldsMember, Works, Writes, Refs, Deleted, InChat, Creating, Role
<1>7. \A s \in Txs \ {t} : Apart(y, tx[s])
  BY <1>1, <1>2, <1>4, ApartLocks DEF Apart
<1> QED
  BY <1>2, <1>4, <1>5, <1>6, <1>7, GoesOn

LEMMA OnWrite ==
    ASSUME IInv, NEW t \in Txs, Write(t)
    PROVE  IInv'
<1> DEFINE x == tx[t]
           y == [x EXCEPT !.pc = "commit"]
<1>1. /\ x \in Tx /\ Formed(x) /\ Safe(x)
      /\ \A s \in Txs \ {t} : tx[s] \in Tx /\ Apart(x, tx[s])
  BY Known
<1>2. /\ tx' = [tx EXCEPT ![t] = y] /\ UNCHANGED <<rows, ghosts>>
      /\ x.pc = "write" /\ x.op # "createDirect"
      /\ \A s \in Txs \ {t} : Referring(t) \cap Deleting(s) = {}
      /\ Referring(t) \subseteq users
  BY <1>1 DEF Write, Referring, Go, Tx
<1>3. x.op \in Creating \cup {"add"} => Refs(y) \subseteq Referring(t)
  BY <1>1, <1>2 DEF Formed, Tx, Refs, Referring, References, Creating
<1>4. /\ y \in Tx /\ y.pc = "commit" /\ y.chats = x.chats /\ y.op = x.op /\ y.actor = x.actor /\ y.chat = x.chat
      /\ y.targets = x.targets /\ y.reply = x.reply /\ y.post = x.post /\ y.rows = x.rows /\ y.messages = x.messages
  BY <1>1, <1>2, <1>3 DEF Tx, Steps
<1> HIDE DEF x, y
<1>5. Formed(y)
  BY <1>1, <1>2, <1>3, <1>4, NullTypes DEF Formed, Works, InChat, Creating
<1>6. Safe(y)
  BY <1>1, <1>2, <1>3, <1>4 DEF Safe, SafeChat, SafeMember, SafeRows, SafeReply, SafeDeleted, SafeNew, SafeUsers,
     HoldsChat, HoldsMember, Works, Writes, Refs, Deleted, InChat, Creating, Role
<1>7. \A s \in Txs \ {t} : Apart(y, tx[s])
  <2> SUFFICES ASSUME NEW s \in Txs \ {t} PROVE Apart(y, tx[s])
    OBVIOUS
  <2>1. Refs(y) \cap Deleted(tx[s]) = {}
    BY <1>2, <1>3, <1>4 DEF Refs, Deleting, Deleted, Creating
  <2> QED
    BY <1>1, <1>2, <1>4, <2>1 DEF Apart, Deleted
<1> QED
  BY <1>2, <1>4, <1>5, <1>6, <1>7, GoesOn

LEMMA OnInsertDirect ==
    ASSUME IInv, NEW t \in Txs, InsertDirect(t)
    PROVE  IInv'
<1> DEFINE x == tx[t]
           y == [x EXCEPT !.pc = "commit"]
<1>1. /\ x \in Tx /\ Formed(x) /\ Safe(x)
      /\ \A s \in Txs \ {t} : tx[s] \in Tx /\ Apart(x, tx[s])
  BY Known
<1>2. /\ tx' = [tx EXCEPT ![t] = y] /\ UNCHANGED <<rows, ghosts>>
      /\ x.pc = "write" /\ x.op = "createDirect"
      /\ \A s \in Txs \ {t} : PairOf(x) \notin InsertedPair(s) /\ PairOf(x) \cap Deleting(s) = {}
      /\ DirectChats(PairOf(x)) = {} /\ PairOf(x) \subseteq users
  BY <1>1 DEF InsertDirect, Pair, PairOf, Go, Tx
<1>3. x.targets \subseteq Users /\ Refs(y) = PairOf(x) /\ PairOf(y) = PairOf(x)
  BY <1>1, <1>2 DEF Formed, Tx, Refs, PairOf, Creating
<1>4. /\ y \in Tx /\ y.pc = "commit" /\ y.chats = x.chats /\ y.op = x.op /\ y.actor = x.actor /\ y.chat = x.chat
      /\ y.targets = x.targets /\ y.reply = x.reply /\ y.post = x.post /\ y.rows = x.rows /\ y.messages = x.messages
  BY <1>1, <1>2, <1>3 DEF Tx, Steps
<1> HIDE DEF x, y
<1>5. Formed(y)
  BY <1>1, <1>2, <1>3, <1>4, NullTypes DEF Formed, Works, InChat, Creating
<1>6. Safe(y)
  BY <1>1, <1>2, <1>3, <1>4 DEF Safe, SafeChat, SafeMember, SafeRows, SafeReply, SafeDeleted, SafeNew, SafeUsers,
     HoldsChat, HoldsMember, Works, Writes, Refs, Deleted, InChat, Creating, PairOf, Posting
<1>7. \A s \in Txs \ {t} : Apart(y, tx[s])
  <2> SUFFICES ASSUME NEW s \in Txs \ {t} PROVE Apart(y, tx[s])
    OBVIOUS
  <2>1. PairOf(x) \cap Deleted(tx[s]) = {}
    BY <1>2 DEF Deleting, Deleted
  <2>2. tx[s].op = "createDirect" /\ tx[s].pc = "commit" => PairOf(tx[s]) # PairOf(x)
    BY <1>2 DEF InsertedPair, PairOf
  <2> QED
    BY <1>1, <1>2, <1>3, <1>4, <2>1, <2>2 DEF Apart, Deleted
<1> QED
  BY <1>2, <1>4, <1>5, <1>6, <1>7, GoesOn

LEMMA OnEndMemberships ==
    ASSUME IInv, NEW t \in Txs, EndMemberships(t)
    PROVE  IInv'
<1> DEFINE x == tx[t]
           y == [x EXCEPT !.rows = Memberships(x.actor, x.want), !.pc = "authored"]
<1>1. /\ x \in Tx /\ Formed(x) /\ Safe(x)
      /\ \A s \in Txs \ {t} : tx[s] \in Tx /\ Apart(x, tx[s])
  BY Known
<1>2. /\ tx' = [tx EXCEPT ![t] = y] /\ UNCHANGED <<rows, ghosts>>
      /\ x.pc = "memberships" /\ \A s \in Txs \ {t} : Memberships(x.actor, x.want) \cap tx[s].rows = {}
  BY <1>1 DEF EndMemberships, RowsFree, Go, Tx
<1>3. x.op = "deleteUser" /\ x.actor \in Users /\ Memberships(x.actor, x.want) \subseteq Chats \X Users
  BY <1>1, <1>2, NullTypes DEF Formed, Tx, Ops, InChat, Creating, Memberships
<1>4. /\ y \in Tx /\ y.pc = "authored" /\ y.chats = x.chats /\ y.op = x.op /\ y.actor = x.actor /\ y.chat = x.chat
      /\ y.targets = x.targets /\ y.reply = x.reply /\ y.post = x.post /\ y.rows = Memberships(x.actor, x.want) /\ y.messages = x.messages
  BY <1>1, <1>2, <1>3 DEF Tx, Steps, Authored, Created
<1> HIDE DEF x, y
<1>5. Formed(y)
  BY <1>1, <1>2, <1>3, <1>4, NullTypes DEF Formed, Works, InChat, Creating, Posting
<1>6. Safe(y)
  BY <1>1, <1>2, <1>3, <1>4 DEF Safe, SafeChat, SafeMember, SafeRows, SafeReply, SafeDeleted, SafeNew, SafeUsers,
     HoldsChat, HoldsMember, Works, Writes, Refs, Deleted, InChat, Creating, Posting
<1>7. \A s \in Txs \ {t} : Apart(y, tx[s])
  BY <1>1, <1>2, <1>4, ApartLocks DEF Apart
<1> QED
  BY <1>2, <1>4, <1>5, <1>6, <1>7, GoesOn

LEMMA OnAnonymizeMessages ==
    ASSUME IInv, NEW t \in Txs, AnonymizeMessages(t)
    PROVE  IInv'
<1> DEFINE x == tx[t]
           y == [x EXCEPT !.messages = Authored(x.actor), !.pc = "created"]
<1>1. /\ x \in Tx /\ Formed(x) /\ Safe(x)
      /\ \A s \in Txs \ {t} : tx[s] \in Tx /\ Apart(x, tx[s])
  BY Known
<1>2. /\ tx' = [tx EXCEPT ![t] = y] /\ UNCHANGED <<rows, ghosts>>
      /\ x.pc = "authored" /\ \A s \in Txs \ {t} : Authored(x.actor) \cap tx[s].messages = {}
  BY <1>1 DEF AnonymizeMessages, MessagesFree, Go, Tx
<1>3. x.op = "deleteUser" /\ x.actor \in Users /\ Memberships(x.actor, x.want) \subseteq Chats \X Users
  BY <1>1, <1>2, NullTypes DEF Formed, Tx, Ops, InChat, Creating, Memberships
<1>4. /\ y \in Tx /\ y.pc = "created" /\ y.chats = x.chats /\ y.op = x.op /\ y.actor = x.actor /\ y.chat = x.chat
      /\ y.targets = x.targets /\ y.reply = x.reply /\ y.post = x.post /\ y.rows = x.rows /\ y.messages = Authored(x.actor)
  BY <1>1, <1>2, <1>3 DEF Tx, Steps, Authored, Created
<1> HIDE DEF x, y
<1>5. Formed(y)
  BY <1>1, <1>2, <1>3, <1>4, NullTypes DEF Formed, Works, InChat, Creating, Posting
<1>6. Safe(y)
  BY <1>1, <1>2, <1>3, <1>4 DEF Safe, SafeChat, SafeMember, SafeRows, SafeReply, SafeDeleted, SafeNew, SafeUsers,
     HoldsChat, HoldsMember, Works, Writes, Refs, Deleted, InChat, Creating, Posting
<1>7. \A s \in Txs \ {t} : Apart(y, tx[s])
  BY <1>1, <1>2, <1>4, ApartLocks DEF Apart
<1> QED
  BY <1>2, <1>4, <1>5, <1>6, <1>7, GoesOn

LEMMA OnAnonymizeChats ==
    ASSUME IInv, NEW t \in Txs, AnonymizeChats(t)
    PROVE  IInv'
<1> DEFINE x == tx[t]
           y == [x EXCEPT !.chats = Created(x.actor), !.pc = "user"]
<1>1. /\ x \in Tx /\ Formed(x) /\ Safe(x)
      /\ \A s \in Txs \ {t} : tx[s] \in Tx /\ Apart(x, tx[s])
  BY Known
<1>2. /\ tx' = [tx EXCEPT ![t] = y] /\ UNCHANGED <<rows, ghosts>>
      /\ x.pc = "created" /\ \A s \in Txs \ {t} : Created(x.actor) \cap tx[s].chats = {}
  BY <1>1 DEF AnonymizeChats, ChatsFree, Go, Tx
<1>3. x.op = "deleteUser" /\ x.actor \in Users /\ Memberships(x.actor, x.want) \subseteq Chats \X Users
  BY <1>1, <1>2, NullTypes DEF Formed, Tx, Ops, InChat, Creating, Memberships
<1>4. /\ y \in Tx /\ y.pc = "user" /\ y.chats = Created(x.actor) /\ y.op = x.op /\ y.actor = x.actor /\ y.chat = x.chat
      /\ y.targets = x.targets /\ y.reply = x.reply /\ y.post = x.post /\ y.rows = x.rows /\ y.messages = x.messages
  BY <1>1, <1>2, <1>3 DEF Tx, Steps, Authored, Created
<1> HIDE DEF x, y
<1>5. Formed(y)
  BY <1>1, <1>2, <1>3, <1>4, NullTypes DEF Formed, Works, InChat, Creating, Posting
<1>6. Safe(y)
  BY <1>1, <1>2, <1>3, <1>4 DEF Safe, SafeChat, SafeMember, SafeRows, SafeReply, SafeDeleted, SafeNew, SafeUsers,
     HoldsChat, HoldsMember, Works, Writes, Refs, Deleted, InChat, Creating, Posting
<1>7. \A s \in Txs \ {t} : Apart(y, tx[s])
  BY <1>1, <1>2, <1>4, ApartLocks DEF Apart
<1> QED
  BY <1>2, <1>4, <1>5, <1>6, <1>7, GoesOn

LEMMA OnDeleteRow ==
    ASSUME IInv, NEW t \in Txs, DeleteRow(t)
    PROVE  IInv'
<1> DEFINE x == tx[t]
           y == [x EXCEPT !.pc = "references"]
<1>1. /\ x \in Tx /\ Formed(x) /\ Safe(x)
      /\ \A s \in Txs \ {t} : tx[s] \in Tx /\ Apart(x, tx[s])
  BY Known
<1>2. /\ tx' = [tx EXCEPT ![t] = y] /\ UNCHANGED <<rows, ghosts>>
      /\ x.pc = "user" /\ x.actor \in users
      /\ \A s \in Txs \ {t} : x.actor \notin Shared(s) \cup Deleting(s)
  BY <1>1 DEF DeleteRow, Go, Tx
<1>3. x.op = "deleteUser" /\ x.actor \in Users
  BY <1>1, <1>2, NullTypes DEF Formed, Tx, Ops, InChat, Creating
<1>4. /\ y \in Tx /\ y.pc = "references" /\ y.chats = x.chats /\ y.op = x.op /\ y.actor = x.actor /\ y.chat = x.chat
      /\ y.targets = x.targets /\ y.reply = x.reply /\ y.post = x.post /\ y.rows = x.rows /\ y.messages = x.messages
  BY <1>1, <1>2, <1>3 DEF Tx, Steps
<1> HIDE DEF x, y
<1>5. Formed(y)
  BY <1>1, <1>2, <1>3, <1>4, NullTypes DEF Formed, Works, InChat, Creating, Posting
<1>6. Safe(y)
  BY <1>1, <1>2, <1>3, <1>4 DEF Safe, SafeChat, SafeMember, SafeRows, SafeReply, SafeDeleted, SafeNew, SafeUsers,
     HoldsChat, HoldsMember, Works, Writes, Refs, Deleted, InChat, Creating, Posting
<1>7. \A s \in Txs \ {t} : Apart(y, tx[s])
  <2> SUFFICES ASSUME NEW s \in Txs \ {t} PROVE Apart(y, tx[s])
    OBVIOUS
  <2>1. x.actor \notin Refs(tx[s]) \cup Deleted(tx[s])
    BY <1>2 DEF Refs, Deleted, Deleting, Shared, References, Creating
  <2> QED
    BY <1>1, <1>2, <1>3, <1>4, <2>1 DEF Apart, Deleted, Refs, Creating, Posting
<1> QED
  BY <1>2, <1>4, <1>5, <1>6, <1>7, GoesOn

(* A transaction that ends without a commit. *)
LEMMA OnRollback ==
    ASSUME IInv, NEW t \in Txs, Go(t, "idle", Idle)
    PROVE  IInv'
<1>1. [Idle EXCEPT !.pc = "idle"] = Idle
  BY DEF Idle
<1>2. tx' = [tx EXCEPT ![t] = Idle] /\ UNCHANGED <<rows, ghosts>>
  BY <1>1 DEF Go
<1> QED
  BY <1>2, NullTypes, IdleSafe, GoesOn
-----------------------------------------------------------------------------
(* Requests *)

LEMMA BeginsInChat ==
    ASSUME IInv, NEW t \in Txs, NEW op \in InChat, NEW a \in Users, NEW c \in Chats, NEW S \in SUBSET Users,
           NEW r \in Messages \cup {NoMessage}, NEW m \in Messages \cup {NoMessage},
           op \in Posting => m \in FreshMessages, op # "send" => r = NoMessage,
           r # NoMessage => r \in Posted(c), op = "remove" => \E u \in Users : S = {u},
           Start(t, InChatRequest(op, a, c, S, r, m))
    PROVE  IInv'
<1> DEFINE y == InChatRequest(op, a, c, S, r, m)
<1>1. tx' = [tx EXCEPT ![t] = y] /\ UNCHANGED <<rows, ghosts>>
  BY DEF Start
<1>2. /\ y \in Tx /\ y.op = op /\ y.pc = "chat" /\ y.actor = a /\ y.chat = c /\ y.targets = S /\ y.reply = r
      /\ y.post = m /\ y.chats = {} /\ y.rows = {} /\ y.messages = {}
  BY DEF InChatRequest, Idle, Tx, Ops, InChat, Steps
<1> HIDE DEF y
<1>3. Formed(y)
  BY <1>2 DEF Formed, FreshMessages, InChat, Creating, Posting
<1>4. Safe(y)
  BY <1>2 DEF FreshMessages, Posted, InChat, Creating,
     Safe, SafeChat, SafeMember, SafeRows, SafeReply, SafeDeleted, SafeNew, SafeUsers,
     HoldsChat, HoldsMember, Works, Writes, Refs, Deleted
<1>5. \A s \in Txs \ {t} : Apart(y, tx[s])
  BY <1>2 DEF FreshMessages, Apart, Refs, Deleted, InChat, Creating
<1> QED
  BY <1>1, <1>2, <1>3, <1>4, <1>5, GoesOn

LEMMA OnRequestInChat ==
    ASSUME IInv, NEW t \in Txs, NEW a \in Users, NEW c \in Chats, RequestInChat(t, a, c)
    PROVE  IInv'
<1>1. \A m \in FreshMessages : m \in Messages
  BY DEF FreshMessages
<1>2. users \subseteq Users
  BY DEF IInv, TypeOK, RowsTypeOK
<1>3. ASSUME NEW r \in {m \in Posted(c) : ~message[m].deleted} \cup {NoMessage}, BeginSend(t, a, c, r) PROVE IInv'
  BY <1>1, <1>3, BeginsInChat DEF BeginSend, InChat, Posted
<1>4. ASSUME BeginLeave(t, a, c) PROVE IInv'
  BY <1>1, <1>4, BeginsInChat DEF BeginLeave, InChat
<1>5. ASSUME BeginMarkRead(t, a, c) PROVE IInv'
  BY <1>5, BeginsInChat DEF BeginMarkRead, InChat, Posting
<1>6. ASSUME BeginDeleteChat(t, a, c) PROVE IInv'
  BY <1>6, BeginsInChat DEF BeginDeleteChat, InChat, Posting
<1>7. ASSUME NEW S \in SUBSET users, BeginAdd(t, a, c, S) PROVE IInv'
  <2>1. S \ {a} \in SUBSET Users
    BY <1>2
  <2> QED
    BY <1>1, <1>7, <2>1, BeginsInChat DEF BeginAdd, InChat
<1>8. ASSUME NEW u \in Users, BeginRemove(t, a, c, u) PROVE IInv'
  <2>1. {u} \in SUBSET Users
    OBVIOUS
  <2> QED
    BY <1>1, <1>8, <2>1, BeginsInChat DEF BeginRemove, InChat
<1>9. ASSUME BeginRename(t, a, c) PROVE IInv'
  BY <1>1, <1>9, BeginsInChat DEF BeginRename, InChat
<1> QED
  BY <1>3, <1>4, <1>5, <1>6, <1>7, <1>8, <1>9 DEF RequestInChat

LEMMA OnBeginDeleteMessage ==
    ASSUME IInv, NEW t \in Txs, NEW a \in Users, NEW m \in Authored(a), BeginDeleteMessage(t, a, m)
    PROVE  IInv'
<1> DEFINE y == [Idle EXCEPT !.op = "deleteMessage", !.pc = "message", !.actor = a, !.reply = m]
<1>1. tx' = [tx EXCEPT ![t] = y] /\ UNCHANGED <<rows, ghosts>>
  BY DEF Start, BeginDeleteMessage
<1>2. m \in Messages /\ message[m].chat \in Chats
  BY NullAssumption DEF Authored, IInv, RowsInv, FreeIsEmpty, FreeMessage, TypeOK, RowsTypeOK, MessageRow
<1>3. /\ y \in Tx /\ y.op = "deleteMessage" /\ y.pc = "message" /\ y.actor = a /\ y.reply = m
      /\ y.chats = {} /\ y.rows = {} /\ y.messages = {}
  BY <1>2 DEF Idle, Tx, Ops, Steps
<1> HIDE DEF y
<1>4. Formed(y)
  BY <1>2, <1>3 DEF Formed, InChat, Creating, Posting
<1>5. Safe(y)
  BY <1>2, <1>3 DEF InChat, Creating, Posting,
     Safe, SafeChat, SafeMember, SafeRows, SafeReply, SafeDeleted, SafeNew, SafeUsers,
     HoldsChat, HoldsMember, Works, Writes, Refs, Deleted
<1>6. \A s \in Txs \ {t} : Apart(y, tx[s])
  BY <1>3 DEF Apart, Refs, Deleted, Posting, Creating
<1> QED
  BY <1>1, <1>3, <1>4, <1>5, <1>6, GoesOn

LEMMA BeginsToCreate ==
    ASSUME IInv, NEW t \in Txs, NEW op \in Creating, NEW a \in Users, NEW c \in FreshChats, NEW S \in SUBSET Users,
           op = "createGroup" => S # {} /\ a \notin S /\ Cardinality(S) + 1 <= MaxMembers,
           op = "createDirect" => \E u \in Users : u # a /\ S = {u},
           Start(t, [Idle EXCEPT !.op = op, !.pc = "write", !.actor = a, !.chat = c, !.targets = S])
    PROVE  IInv'
<1> DEFINE y == [Idle EXCEPT !.op = op, !.pc = "write", !.actor = a, !.chat = c, !.targets = S]
<1>1. tx' = [tx EXCEPT ![t] = y] /\ UNCHANGED <<rows, ghosts>>
  BY DEF Start
<1>2. c \in Chats /\ chat[c] = FreeChat /\ \A s \in Txs : tx[s].op \in Creating => tx[s].chat # c
  BY DEF FreshChats
<1>3. /\ y \in Tx /\ y.op = op /\ y.pc = "write" /\ y.actor = a /\ y.chat = c /\ y.targets = S
      /\ y.chats = {} /\ y.rows = {} /\ y.messages = {}
  BY <1>2 DEF Idle, Tx, Ops, Steps, Creating
<1> HIDE DEF y
<1>4. Formed(y)
  BY <1>2, <1>3 DEF Formed, InChat, Creating, Posting
<1>5. Safe(y)
  BY <1>2, <1>3 DEF InChat, Creating, Posting,
     Safe, SafeChat, SafeMember, SafeRows, SafeReply, SafeDeleted, SafeNew, SafeUsers,
     HoldsChat, HoldsMember, Works, Writes, Refs, Deleted
<1>6. \A s \in Txs \ {t} : Apart(y, tx[s])
  BY <1>2, <1>3 DEF Apart, Refs, Deleted, Posting, Creating
<1> QED
  BY <1>1, <1>3, <1>4, <1>5, <1>6, GoesOn

LEMMA OnBeginDeleteUser ==
    ASSUME IInv, NEW t \in Txs, NEW u \in Users, BeginDeleteUser(t, u)
    PROVE  IInv'
<1> DEFINE y == [Idle EXCEPT !.op = "deleteUser", !.pc = "memberships", !.actor = u, !.want = Joined(u)]
<1>1. tx' = [tx EXCEPT ![t] = y] /\ UNCHANGED <<rows, ghosts>>
  BY DEF Start, BeginDeleteUser
<1>2. Joined(u) \subseteq Chats
  BY DEF Joined
<1>3. /\ y \in Tx /\ y.op = "deleteUser" /\ y.pc = "memberships" /\ y.actor = u
      /\ y.chats = {} /\ y.rows = {} /\ y.messages = {}
  BY <1>2 DEF Idle, Tx, Ops, Steps
<1> HIDE DEF y
<1>4. Formed(y) /\ Safe(y) /\ \A s \in Txs \ {t} : Apart(y, tx[s])
  BY <1>3 DEF Formed, Apart, InChat, Creating, Posting,
     Safe, SafeChat, SafeMember, SafeRows, SafeReply, SafeDeleted, SafeNew, SafeUsers,
     HoldsChat, HoldsMember, Works, Writes, Refs, Deleted
<1> QED
  BY <1>1, <1>3, <1>4, GoesOn

LEMMA OnRequest ==
    ASSUME IInv, NEW t \in Txs, Request(t)
    PROVE  IInv'
<1>1. users \subseteq Users
  BY DEF IInv, TypeOK, RowsTypeOK
<1>2. ASSUME NEW a \in Actors, NEW S \in SUBSET users, BeginCreateGroup(t, a, S) PROVE IInv'
  <2>1. "createGroup" \in Creating /\ a \in Users /\ S \ {a} \in SUBSET Users
    BY <1>1, ActorsAssumption DEF Creating
  <2> QED
    BY <1>2, <2>1, BeginsToCreate DEF BeginCreateGroup
<1>3. ASSUME NEW a \in Actors, NEW b \in users, BeginCreateDirect(t, a, b) PROVE IInv'
  <2>1. "createDirect" \in Creating /\ a \in Users /\ {b} \in SUBSET Users
    BY <1>1, ActorsAssumption DEF Creating
  <2>2. PICK c \in FreshChats :
          Start(t, [Idle EXCEPT !.op = "createDirect", !.pc = "write", !.actor = a, !.chat = c, !.targets = {b}])
    BY <1>3 DEF BeginCreateDirect
  <2>3. \E u \in Users : u # a /\ {b} = {u}
    BY <1>1, <1>3 DEF BeginCreateDirect
  <2> QED
    BY <2>1, <2>2, <2>3, BeginsToCreate
<1> QED
  BY <1>1, <1>2, <1>3, ActorsAssumption, OnRequestInChat, OnBeginDeleteMessage, OnBeginDeleteUser DEF Request
-----------------------------------------------------------------------------
(* Commits: what they leave alone of what the request x relies on. *)
Kept(x) ==
    /\ \A c \in x.chats : Live(c) =>
          /\ chat'[c].state = chat[c].state /\ chat'[c].key = chat[c].key
          /\ \A u \in Users : <<c, u>> \in x.rows \/ member[c][u] = "none" => member'[c][u] = member[c][u]
    /\ \A m \in Messages : message[m].chat # NoChat => message'[m].chat = message[m].chat
    /\ \A m \in x.messages : message[m].chat # NoChat => message'[m] = message[m]
    /\ x.op \in Posting => message'[x.post] = message[x.post]
    /\ x.op \in Creating => chat'[x.chat] = chat[x.chat]
    /\ (Refs(x) \cup Deleted(x)) \cap users \subseteq users'
    /\ x.op = "createDirect" /\ x.pc = "commit" /\ DirectChats(PairOf(x)) = {} =>
          \A c \in Chats : chat'[c].state = "live" => chat'[c].key # PairOf(x)

LEMMA KeptSafe ==
    ASSUME TypeOK, NEW x \in Tx, Formed(x), Safe(x), Kept(x)
    PROVE  Safe(x)' /\ Refs(x)' = Refs(x)
<1>1. /\ x.chat \in Chats \cup {NoChat} /\ x.actor \in Users \cup {NoUser} /\ x.targets \subseteq Users
      /\ x.reply \in Messages \cup {NoMessage} /\ x.post \in Messages \cup {NoMessage}
      /\ x.messages \subseteq Messages /\ x.op \in Ops
  BY DEF Tx
<1>2. HoldsChat(x) => /\ x.chat \in Chats /\ x.chat \in x.chats /\ Live(x.chat)
                      /\ chat'[x.chat].state = "live" /\ chat'[x.chat].key = chat[x.chat].key
                      /\ \A u \in Users : <<x.chat, u>> \in x.rows \/ member[x.chat][u] = "none"
                            => member'[x.chat][u] = member[x.chat][u]
  BY DEF Kept, Safe, SafeChat, Live, Formed, HoldsChat, HoldsMember, Works
<1>3. SafeChat(x)'
  BY <1>2 DEF SafeChat, Live, HoldsChat, HoldsMember, Works, Safe
<1>4. HoldsMember(x) => HoldsChat(x) /\ x.actor \in Users
  BY NullTypes DEF HoldsChat, HoldsMember, Works, Formed, InChat
<1>5. SafeMember(x)'
  <2> SUFFICES ASSUME HoldsMember(x) PROVE <<x.chat, x.actor>> \in x.rows /\ Role(x)'
    BY DEF SafeMember, HoldsMember, Works
  <2>1. <<x.chat, x.actor>> \in x.rows /\ Role(x)
    BY DEF Safe, SafeMember
  <2>2. /\ member'[x.chat][x.actor] = member[x.chat][x.actor]
        /\ chat'[x.chat].key = chat[x.chat].key
    BY <2>1, <1>2, <1>4
  <2> QED
    BY <2>1, <2>2 DEF Role, IsActive, CanManage, CanBeRemoved, CanDelete, IsGroup
<1>6. ASSUME Writes(x), x.op = "add"
      PROVE  \A u \in Users : member'[x.chat][u] = member[x.chat][u]
  BY <1>2, <1>4, <1>6 DEF Safe, SafeRows, Writes, HoldsMember, Works, InChat
<1>7. SafeRows(x)'
  <2> SUFFICES ASSUME Writes(x) PROVE
        /\ x.op = "add" =>
              /\ \A u \in Users : member'[x.chat][u] # "none" => <<x.chat, u>> \in x.rows
              /\ WithinLimit(x.chat, x.targets)'
        /\ x.op = "remove" => \A u \in x.targets : <<x.chat, u>> \in x.rows /\ CanBeRemoved(x.chat, u)'
    BY DEF SafeRows, Writes
  <2>1. CASE x.op = "add"
    <3>1. ActiveMembers(x.chat)' = ActiveMembers(x.chat)
      BY <2>1, <1>6 DEF ActiveMembers, IsActive
    <3> QED
      BY <2>1, <3>1, <1>6 DEF Safe, SafeRows, WithinLimit
  <2>2. CASE x.op = "remove"
    <3>1. HoldsMember(x)
      BY <2>2 DEF HoldsMember, Works, Writes, InChat
    <3> QED
      BY <2>2, <3>1, <1>1, <1>2, <1>4 DEF Safe, SafeRows, CanBeRemoved, IsGroup
  <2> QED
    BY <2>1, <2>2
<1>8. SafeReply(x)'
  <2> SUFFICES ASSUME x.op = "send", x.reply # NoMessage PROVE
        /\ x.reply \in Messages /\ message'[x.reply].chat = x.chat
        /\ Writes(x) => x.reply \in x.messages /\ ~message'[x.reply].deleted
    BY DEF SafeReply, Writes
  <2>1. x.chat # NoChat
    BY NullAssumption DEF Formed, InChat
  <2> QED
    BY <2>1 DEF Safe, SafeReply, Kept
<1>9. SafeDeleted(x)'
  <2> SUFFICES ASSUME x.op = "deleteMessage" PROVE
        /\ message'[x.reply].chat \in Chats
        /\ x.pc # "message" => x.reply \in x.messages /\ message'[x.reply].chat = x.chat
        /\ Writes(x) => message'[x.reply].author = x.actor /\ ~message'[x.reply].deleted
    BY DEF SafeDeleted, Writes
  <2> QED
    BY NullAssumption DEF Formed, Safe, SafeDeleted, Kept, Writes
<1>10. SafeNew(x)'
  BY DEF Safe, SafeNew, Kept, FreeMessage, FreeChat, PairOf, DirectChats, Live
<1>11. Refs(x)' = Refs(x)
  <2>1. CASE x.pc = "commit" /\ x.op = "add"
    <3>1. ActiveMembers(x.chat)' = ActiveMembers(x.chat)
      BY <2>1, <1>6 DEF ActiveMembers, IsActive, Writes
    <3> QED
      BY <3>1 DEF Refs
  <2> QED
    BY <2>1 DEF Refs
<1>12. SafeUsers(x)'
  BY <1>11 DEF SafeUsers, Safe, Kept, Deleted
<1> QED
  BY <1>3, <1>5, <1>7, <1>8, <1>9, <1>10, <1>11, <1>12 DEF Safe

LEMMA GoesHome ==
    ASSUME IInv, NEW t \in Txs, tx' = [tx EXCEPT ![t] = Idle], TypeOK', RowsInv',
           \A s \in Txs \ {t} : Kept(tx[s])
    PROVE  IInv'
<1>1. \A s \in Txs : tx'[s] = IF s = t THEN Idle ELSE tx[s]
  BY DEF IInv, TypeOK
<1>2. \A s \in Txs \ {t} : Safe(tx[s])' /\ Refs(tx[s])' = Refs(tx[s])
  <2> SUFFICES ASSUME NEW s \in Txs \ {t} PROVE Safe(tx[s])' /\ Refs(tx[s])' = Refs(tx[s])
    OBVIOUS
  <2>1. PICK x : x = tx[s] /\ x = tx'[s]
    BY <1>1
  <2>2. x \in Tx /\ Formed(x) /\ Safe(x) /\ Kept(x)
    BY <2>1, Known
  <2>3. Safe(x)' /\ Refs(x)' = Refs(x)
    BY <2>2, KeptSafe DEF IInv
  <2> QED
    BY <2>1, <2>3 DEF Safe, SafeChat, SafeMember, SafeRows, SafeReply, SafeDeleted, SafeNew, SafeUsers,
      HoldsChat, HoldsMember, Works, Writes, Refs, Deleted, Role, PairOf
<1>3. \A s \in Txs : Formed(tx[s])'
  <2>1. \A s \in Txs : Formed(tx'[s])
    BY <1>1, IdleSafe DEF IInv
  <2> QED
    BY <2>1 DEF Formed
<1>4. Safe(tx[t])'
  BY <1>1, NullTypes DEF Safe, SafeChat, SafeMember, SafeRows, SafeReply, SafeDeleted, SafeNew, SafeUsers,
    HoldsChat, HoldsMember, Works, Writes, Refs, Deleted, InChat, Creating, Posting
<1>5. ASSUME NEW s \in Txs, NEW r \in Txs, s # r PROVE Apart(tx[s], tx[r])'
  <2>1. CASE s = t \/ r = t
    BY <1>1, <1>5, <2>1, NullTypes DEF Apart, Refs, Deleted, Creating, Posting
  <2>2. CASE s # t /\ r # t
    BY <1>1, <1>2, <1>5, <2>2 DEF IInv, Apart, Deleted, PairOf
  <2> QED
    BY <2>1, <2>2
<1> QED
  BY <1>2, <1>3, <1>4, <1>5 DEF IInv
-----------------------------------------------------------------------------
(* What each write keeps of the rows. *)

LEMMA ActiveFinite ==
    ASSUME NEW A, NEW B, A \subseteq B, B \subseteq Users
    PROVE  Cardinality(A) \in Nat /\ Cardinality(B) \in Nat /\ Cardinality(A) <= Cardinality(B)
<1>1. IsFiniteSet(B)
  BY UsersAssumption, FS_Subset
<1> QED
  BY <1>1, FS_Subset, FS_CardinalityType

LEMMA GroupRows ==
    ASSUME RowsTypeOK, RowsInv, NEW c \in Chats, NEW a \in users, NEW S \in SUBSET users, a \notin S,
           Cardinality(S) + 1 <= MaxMembers, chat[c] = FreeChat,
           WriteGroup(c, a, S)
    PROVE  RowsTypeOK' /\ RowsInv'
<1>1. RowsTypeOK'
  BY DEF RowsTypeOK, WriteGroup, ChatRow, MembershipStates
<1>2. /\ chat'[c].state = "live" /\ chat'[c].key = {} /\ ActiveMembers(c)' = {a} \cup S
      /\ \A d \in Chats \ {c} : chat'[d] = chat[d] /\ member'[d] = member[d] /\ ActiveMembers(d)' = ActiveMembers(d)
      /\ users' = users /\ message' = message /\ read' = read
  BY DEF WriteGroup, RowsTypeOK, ActiveMembers, IsActive
<1>3. MembersExist' /\ FreeIsEmpty'
  BY <1>2 DEF RowsInv, MembersExist, FreeIsEmpty
<1>4. OnlyPostedIsRead'
  BY <1>2 DEF RowsInv, OnlyPostedIsRead, Posted
<1>5. Cardinality({a} \cup S) = Cardinality(S) + 1
  <2>1. IsFiniteSet(S)
    BY UsersAssumption, FS_Subset DEF RowsTypeOK
  <2>2. {a} \cup S = S \cup {a}
    OBVIOUS
  <2> QED
    BY <2>1, <2>2, FS_AddElement
<1>6. LimitKept'
  BY <1>2, <1>5 DEF RowsInv, LimitKept, Live, IsGroup
<1>7. OneChatPerPair'
  BY <1>2 DEF RowsInv, OneChatPerPair, DirectChats, Live, IsGroup
<1> QED
  BY <1>1, <1>3, <1>4, <1>6, <1>7 DEF RowsInv

LEMMA DirectRows ==
    ASSUME RowsTypeOK, RowsInv, NEW c \in Chats, NEW a \in users, NEW b \in users, a # b, chat[c] = FreeChat, DirectChats({a, b}) = {},
           WriteDirect(c, a, b)
    PROVE  RowsTypeOK' /\ RowsInv'
<1>1. RowsTypeOK'
  BY DEF RowsTypeOK, WriteDirect, ChatRow, MembershipStates
<1>2. /\ chat'[c].state = "live" /\ chat'[c].key = {a, b} /\ ActiveMembers(c)' = {a, b}
      /\ \A d \in Chats \ {c} : chat'[d] = chat[d] /\ member'[d] = member[d] /\ ActiveMembers(d)' = ActiveMembers(d)
      /\ users' = users /\ message' = message /\ read' = read
  BY DEF WriteDirect, RowsTypeOK, ActiveMembers, IsActive
<1>3. MembersExist' /\ FreeIsEmpty'
  BY <1>2 DEF RowsInv, MembersExist, FreeIsEmpty
<1>4. OnlyPostedIsRead'
  BY <1>2 DEF RowsInv, OnlyPostedIsRead, Posted
<1>5. LimitKept'
  BY <1>2 DEF RowsInv, LimitKept, Live, IsGroup
<1>6. OneChatPerPair'
  <2>1. \A d \in Chats \ {c} : Live(d) => chat[d].key # {a, b}
    BY DEF DirectChats
  <2>2. ~Live(c)
    BY DEF Live, FreeChat
  <2> QED
    BY <1>2, <2>1, <2>2 DEF RowsInv, OneChatPerPair, DirectChats, Live, IsGroup
<1> QED
  BY <1>1, <1>3, <1>4, <1>5, <1>6 DEF RowsInv

LEMMA MessageRows ==
    ASSUME RowsTypeOK, RowsInv, NEW m \in Messages, NEW a \in Users, NEW c \in Chats, NEW r \in Messages \cup {NoMessage}, message[m] = FreeMessage,
           WriteMessage(m, a, c, r)
    PROVE  RowsTypeOK' /\ RowsInv'
<1>1. RowsTypeOK'
  BY DEF RowsTypeOK, WriteMessage, MessageRow, Answer
<1>2. /\ message'[m].chat = c /\ c # NoChat /\ \A n \in Messages \ {m} : message'[n] = message[n]
      /\ users' = users /\ chat' = chat /\ member' = member /\ read' = read
  BY NullAssumption DEF WriteMessage, RowsTypeOK, Answer
<1>3. \A d \in Chats : Posted(d) \subseteq Posted(d)'
  BY <1>2, NullAssumption DEF Posted, FreeMessage
<1> QED
  BY <1>1, <1>2, <1>3 DEF RowsInv, MembersExist, FreeIsEmpty, OnlyPostedIsRead, LimitKept, OneChatPerPair, ActiveMembers, IsActive, Live, IsGroup, DirectChats

LEMMA MembersRows ==
    ASSUME RowsTypeOK, RowsInv, NEW m \in Messages, NEW a \in Users, NEW c \in Chats, NEW N \in SUBSET users, message[m] = FreeMessage,
           Live(c), IsGroup(c), Cardinality(ActiveMembers(c) \cup N) <= MaxMembers,
           WriteMembers(m, a, c, N)
    PROVE  RowsTypeOK' /\ RowsInv'
<1>1. RowsTypeOK'
  BY DEF RowsTypeOK, WriteMembers, MessageRow, MessageBy, Answer, MembershipStates, Posted
<1>2. /\ ActiveMembers(c)' = ActiveMembers(c) \cup N
      /\ \A d \in Chats \ {c} : member'[d] = member[d] /\ ActiveMembers(d)' = ActiveMembers(d) /\ read'[d] = read[d]
      /\ \A u \in Users : read'[c][u] = IF u \in N THEN Posted(c) \cup {m} ELSE read[c][u]
      /\ users' = users /\ chat' = chat
  BY DEF WriteMembers, RowsTypeOK, ActiveMembers, IsActive
<1>3. /\ N # {} => message'[m].chat = c
      /\ \A n \in Messages \ {m} : message'[n] = message[n]
      /\ N = {} => message'[m] = message[m]
  BY DEF WriteMembers, RowsTypeOK, MessageBy, Answer
<1>4. \A d \in Chats : Posted(d) \subseteq Posted(d)'
  BY <1>3, NullAssumption DEF Posted, FreeMessage
<1>5. N # {} => m \in Posted(c)'
  BY <1>3 DEF Posted
<1>6. MembersExist' /\ LimitKept'
  BY <1>2 DEF RowsInv, MembersExist, LimitKept, Live, IsGroup
<1>7. FreeIsEmpty'
  BY <1>3, NullAssumption DEF RowsInv, FreeIsEmpty
<1>8. OnlyPostedIsRead'
  BY <1>2, <1>4, <1>5 DEF RowsInv, OnlyPostedIsRead
<1>9. OneChatPerPair'
  BY <1>2 DEF RowsInv, OneChatPerPair, DirectChats, Live, IsGroup
<1> QED
  BY <1>1, <1>6, <1>7, <1>8, <1>9 DEF RowsInv

LEMMA LeftRows ==
    ASSUME RowsTypeOK, RowsInv, NEW m \in Messages, NEW a \in Users, NEW c \in Chats, NEW u \in Users, message[m] = FreeMessage,
           CanBeRemoved(c, u),
           WriteLeft(m, a, c, u)
    PROVE  RowsTypeOK' /\ RowsInv'
<1>1. RowsTypeOK'
  BY DEF RowsTypeOK, WriteLeft, MessageRow, MessageBy, Answer, MembershipStates
<1>2. /\ ActiveMembers(c)' \subseteq ActiveMembers(c) /\ IsGroup(c)
      /\ \A d \in Chats \ {c} : member'[d] = member[d] /\ ActiveMembers(d)' = ActiveMembers(d) /\ read'[d] = read[d]
      /\ \A v \in Users : read'[c][v] \subseteq read[c][v]
      /\ users' = users /\ chat' = chat
  BY DEF WriteLeft, RowsTypeOK, ActiveMembers, IsActive, CanBeRemoved
<1>3. /\ message'[m].chat = c /\ \A n \in Messages \ {m} : message'[n] = message[n]
  BY DEF WriteLeft, RowsTypeOK, MessageBy, Answer
<1>4. \A d \in Chats : Posted(d) \subseteq Posted(d)'
  BY <1>3, NullAssumption DEF Posted, FreeMessage
<1>5. MembersExist' /\ FreeIsEmpty'
  BY <1>2, <1>3, NullAssumption DEF RowsInv, MembersExist, FreeIsEmpty
<1>6. LimitKept'
  <2>1. Cardinality(ActiveMembers(c)') <= Cardinality(ActiveMembers(c)) /\ Cardinality(ActiveMembers(c)) \in Nat
        /\ Cardinality(ActiveMembers(c)') \in Nat
    BY <1>2, ActiveFinite DEF ActiveMembers
  <2> QED
    BY <1>2, <2>1, MaxMembersAssumption DEF RowsInv, LimitKept, Live, IsGroup
<1>7. OnlyPostedIsRead'
  BY <1>2, <1>4 DEF RowsInv, OnlyPostedIsRead
<1>8. OneChatPerPair'
  BY <1>2 DEF RowsInv, OneChatPerPair, DirectChats, Live, IsGroup
<1> QED
  BY <1>1, <1>5, <1>6, <1>7, <1>8 DEF RowsInv

LEMMA ReadRows ==
    ASSUME RowsTypeOK, RowsInv, NEW c \in Chats, NEW u \in Users,
           WriteRead(c, u, Posted(c))
    PROVE  RowsTypeOK' /\ RowsInv'
<1>1. RowsTypeOK'
  BY DEF RowsTypeOK, WriteRead, Posted
<1>2. OnlyPostedIsRead'
  BY DEF RowsTypeOK, WriteRead, Posted, RowsInv, OnlyPostedIsRead
<1>3. users' = users /\ chat' = chat /\ member' = member /\ message' = message
  BY DEF WriteRead
<1> QED
  BY <1>1, <1>2, <1>3 DEF RowsInv, MembersExist, FreeIsEmpty, LimitKept, OneChatPerPair,
    ActiveMembers, IsActive, Live, IsGroup, DirectChats

LEMMA DeletedMessageRows ==
    ASSUME RowsTypeOK, RowsInv, NEW m \in Messages, message[m].chat # NoChat,
           WriteDeletedMessage(m)
    PROVE  RowsTypeOK' /\ RowsInv'
<1>1. RowsTypeOK'
  BY DEF RowsTypeOK, WriteDeletedMessage, MessageRow
<1>2. /\ users' = users /\ chat' = chat /\ member' = member /\ read' = read
      /\ \A n \in Messages : message'[n].chat = message[n].chat
      /\ \A n \in Messages \ {m} : message'[n] = message[n]
  BY DEF WriteDeletedMessage, RowsTypeOK, MessageRow
<1> QED
  BY <1>1, <1>2 DEF RowsInv, MembersExist, FreeIsEmpty, OnlyPostedIsRead, LimitKept, OneChatPerPair, Posted, ActiveMembers, IsActive, Live, IsGroup, DirectChats

LEMMA DeletedChatRows ==
    ASSUME RowsTypeOK, RowsInv, NEW c \in Chats,
           WriteDeletedChat(c)
    PROVE  RowsTypeOK' /\ RowsInv'
<1>1. RowsTypeOK'
  BY DEF RowsTypeOK, WriteDeletedChat, ChatRow
<1>2. /\ users' = users /\ member' = member /\ read' = read /\ message' = message
      /\ chat'[c].state = "deleted" /\ \A d \in Chats \ {c} : chat'[d] = chat[d]
  BY DEF WriteDeletedChat, RowsTypeOK, ChatRow
<1> QED
  BY <1>1, <1>2 DEF RowsInv, MembersExist, FreeIsEmpty, OnlyPostedIsRead, LimitKept, OneChatPerPair, Posted, ActiveMembers, IsActive, Live, IsGroup, DirectChats

LEMMA DeletedUserRows ==
    ASSUME RowsTypeOK, RowsInv, NEW u \in users,
           WriteDeletedUser(u)
    PROVE  RowsTypeOK' /\ RowsInv'
<1>1. u \in Users /\ u # NoUser
  BY NullAssumption DEF RowsTypeOK
<1>2. RowsTypeOK'
  <2>1. users' \subseteq Users
    BY DEF RowsTypeOK, WriteDeletedUser
  <2>2. chat' \in [Chats -> ChatRow]
    BY DEF RowsTypeOK, WriteDeletedUser, ChatRow
  <2>3. member' \in [Chats -> [Users -> MembershipStates]]
    BY DEF RowsTypeOK, WriteDeletedUser, MembershipStates
  <2>4. read' \in [Chats -> [Users -> SUBSET Messages]]
    BY DEF RowsTypeOK, WriteDeletedUser
  <2>5. message' \in [Messages -> MessageRow]
    BY DEF RowsTypeOK, WriteDeletedUser, MessageRow
  <2> QED
    BY <2>1, <2>2, <2>3, <2>4, <2>5 DEF RowsTypeOK
<1>3. /\ users' = users \ {u}
      /\ \A c \in Chats : chat'[c].state = chat[c].state /\ chat'[c].key = chat[c].key
      /\ \A m \in Messages : message'[m].chat = message[m].chat
      /\ \A m \in Messages : message[m].author # u => message'[m] = message[m]
      /\ \A c \in Chats, v \in Users : read'[c][v] \subseteq read[c][v]
  BY DEF WriteDeletedUser, RowsTypeOK, ChatRow, MessageRow
<1>4. \A c \in Chats : ActiveMembers(c)' = ActiveMembers(c) \ {u}
  BY DEF WriteDeletedUser, RowsTypeOK, ActiveMembers, IsActive
<1>5. MembersExist' /\ FreeIsEmpty' /\ OnlyPostedIsRead'
  <2>1. MembersExist'
    BY <1>3, <1>4 DEF RowsInv, MembersExist
  <2>2. FreeIsEmpty'
    <3>1. FreeMessage.author = NoUser /\ FreeMessage' = FreeMessage
      BY DEF FreeMessage
    <3> QED
      BY <1>1, <1>3, <3>1 DEF RowsInv, FreeIsEmpty
  <2>3. OnlyPostedIsRead'
    BY <1>3 DEF RowsInv, OnlyPostedIsRead, Posted
  <2> QED
    BY <2>1, <2>2, <2>3
<1>6. LimitKept'
  <2>1. \A c \in Chats : /\ Cardinality(ActiveMembers(c)') <= Cardinality(ActiveMembers(c))
                         /\ Cardinality(ActiveMembers(c)) \in Nat /\ Cardinality(ActiveMembers(c)') \in Nat
    BY <1>4, ActiveFinite DEF ActiveMembers
  <2> QED
    BY <1>3, <2>1, MaxMembersAssumption DEF RowsInv, LimitKept, Live, IsGroup
<1>7. OneChatPerPair'
  BY <1>3, <1>4 DEF RowsInv, OneChatPerPair, DirectChats, Live, IsGroup
<1> QED
  BY <1>2, <1>5, <1>6, <1>7 DEF RowsInv
-----------------------------------------------------------------------------
(* Commits keep the invariant, and are the single steps of ChatsAtomic. *)

LEMMA SameCardinality == \A S : Atomic!Cardinality(S) = Cardinality(S)
BY DEF Atomic!Cardinality, Cardinality

LEMMA OnCommitGroup ==
    ASSUME IInv, NEW t \in Txs, CommitGroup(t)
    PROVE  IInv' /\ Atomic!Next
<1> DEFINE x == tx[t]
<1>1. /\ x \in Tx /\ Formed(x) /\ Safe(x) /\ RowsTypeOK /\ RowsInv
      /\ \A s \in Txs \ {t} : tx[s] \in Tx /\ Formed(tx[s]) /\ Safe(tx[s]) /\ Apart(x, tx[s])
  BY Known DEF IInv, TypeOK
<1>2. /\ tx' = [tx EXCEPT ![t] = Idle] /\ UNCHANGED ghosts /\ x.op = "createGroup" /\ x.pc = "commit"
      /\ WriteGroup(x.chat, x.actor, x.targets)
  BY <1>1 DEF CommitGroup, Commits, Ends, Formed
<1>3. /\ x.chat \in Chats /\ chat[x.chat] = FreeChat /\ x.actor \in users /\ x.targets \subseteq users
      /\ x.actor \notin x.targets /\ x.targets # {} /\ Cardinality(x.targets) + 1 <= MaxMembers
  BY <1>1, <1>2, NullTypes DEF Formed, Safe, SafeChat, SafeMember, SafeRows, SafeReply, SafeDeleted, SafeNew, SafeUsers,
     HoldsChat, HoldsMember, Works, Writes, Refs, Role, Tx, InChat, Creating, Posting
<1>4. RowsTypeOK' /\ RowsInv'
  BY <1>1, <1>2, <1>3, GroupRows
<1>5. /\ users' = users /\ message' = message /\ ~Live(x.chat) /\ chat'[x.chat].key = {}
      /\ \A c \in Chats \ {x.chat} : chat'[c] = chat[c] /\ member'[c] = member[c]
  BY <1>1, <1>2, <1>3 DEF RowsTypeOK, WriteGroup, Live, FreeChat
<1> HIDE DEF x
<1>6. ASSUME NEW s \in Txs \ {t} PROVE Kept(tx[s])
  <2>1. tx[s].op \in Creating => tx[s].chat \in Chats \ {x.chat}
    BY <1>1, <1>2 DEF Apart, Formed, Creating
  <2>2. DirectChats(PairOf(tx[s])) = {} =>
          \A c \in Chats : chat'[c].state = "live" => chat'[c].key # PairOf(tx[s])
    BY <1>5 DEF DirectChats, PairOf, Live
  <2> QED
    BY <1>1, <1>5, <2>1, <2>2 DEF Kept, Tx
<1>7. TypeOK'
  BY <1>2, <1>4, NullTypes DEF IInv, TypeOK
<1>8. IInv'
  BY <1>2, <1>4, <1>6, <1>7, GoesHome
<1>9. Atomic!Next
  <2>1. Atomic!CreateGroup(x.chat, x.actor, x.targets)
    <3>1. chat[x.chat].state = "free"
      BY <1>3 DEF FreeChat
    <3>2. Atomic!WriteGroup(x.chat, x.actor, x.targets)
      BY <1>2 DEF Atomic!WriteGroup, WriteGroup
    <3> QED
      BY <1>3, <3>1, <3>2, SameCardinality DEF Atomic!CreateGroup
  <2> QED
    BY <1>3, <2>1 DEF Atomic!Next
<1> QED
  BY <1>8, <1>9

LEMMA OnCommitDirect ==
    ASSUME IInv, NEW t \in Txs, CommitDirect(t)
    PROVE  IInv' /\ Atomic!Next
<1> DEFINE x == tx[t]
<1>1. /\ x \in Tx /\ Formed(x) /\ Safe(x) /\ RowsTypeOK /\ RowsInv
      /\ \A s \in Txs \ {t} : tx[s] \in Tx /\ Formed(tx[s]) /\ Safe(tx[s]) /\ Apart(x, tx[s])
  BY Known DEF IInv, TypeOK
<1>2. /\ tx' = [tx EXCEPT ![t] = Idle] /\ UNCHANGED ghosts /\ x.op = "createDirect" /\ x.pc = "commit"
      /\ \E b \in x.targets : WriteDirect(x.chat, x.actor, b)
  BY <1>1 DEF CommitDirect, Commits, Ends, Formed
<1>3. /\ x.chat \in Chats /\ chat[x.chat] = FreeChat /\ x.actor \in users
      /\ \E b \in users : /\ x.targets = {b} /\ b # x.actor /\ DirectChats({x.actor, b}) = {}
                          /\ WriteDirect(x.chat, x.actor, b)
  <2>1. PICK b \in Users : b # x.actor /\ x.targets = {b}
    BY <1>1, <1>2 DEF Formed
  <2>2. PairOf(x) \subseteq users /\ DirectChats(PairOf(x)) = {} /\ PairOf(x) = {x.actor, b}
    BY <1>1, <1>2, <2>1 DEF Safe, SafeUsers, SafeNew, Refs, PairOf, Creating
  <2>3. x.chat \in Chats /\ chat[x.chat] = FreeChat /\ WriteDirect(x.chat, x.actor, b)
    BY <1>1, <1>2, <2>1 DEF Formed, Safe, SafeNew, Creating
  <2> QED
    BY <2>1, <2>2, <2>3
<1>4. RowsTypeOK' /\ RowsInv'
  BY <1>1, <1>2, <1>3, DirectRows
<1>5. /\ users' = users /\ message' = message /\ ~Live(x.chat) /\ chat'[x.chat].key = PairOf(x)
      /\ \A c \in Chats \ {x.chat} : chat'[c] = chat[c] /\ member'[c] = member[c]
  BY <1>1, <1>2, <1>3 DEF RowsTypeOK, WriteDirect, Live, FreeChat, PairOf
<1> HIDE DEF x
<1>6. ASSUME NEW s \in Txs \ {t} PROVE Kept(tx[s])
  <2>1. tx[s].op \in Creating => tx[s].chat \in Chats \ {x.chat}
    BY <1>1, <1>2 DEF Apart, Formed, Creating
  <2>2. tx[s].op = "createDirect" /\ tx[s].pc = "commit" /\ DirectChats(PairOf(tx[s])) = {} =>
          \A c \in Chats : chat'[c].state = "live" => chat'[c].key # PairOf(tx[s])
    <3>1. tx[s].op = "createDirect" /\ tx[s].pc = "commit" => PairOf(tx[s]) # PairOf(x)
      BY <1>1, <1>2 DEF Apart
    <3> QED
      BY <1>5, <3>1 DEF DirectChats, Live
  <2> QED
    BY <1>1, <1>5, <2>1, <2>2 DEF Kept, Tx
<1>7. TypeOK'
  BY <1>2, <1>4, NullTypes DEF IInv, TypeOK
<1>8. IInv'
  BY <1>2, <1>4, <1>6, <1>7, GoesHome
<1>9. Atomic!Next
  <2>1. PICK b \in users : /\ x.targets = {b} /\ b # x.actor /\ DirectChats({x.actor, b}) = {}
                           /\ WriteDirect(x.chat, x.actor, b)
    BY <1>3
  <2>2. Atomic!CreateDirect(x.chat, x.actor, b)
    <3>1. chat[x.chat].state = "free"
      BY <1>3 DEF FreeChat
    <3>2. Atomic!WriteDirect(x.chat, x.actor, b)
      BY <2>1 DEF Atomic!WriteDirect, WriteDirect
    <3>3. Atomic!DirectChats({x.actor, b}) = {}
      BY <2>1 DEF DirectChats, Live, Atomic!DirectChats, Atomic!Live
    <3> QED
      BY <1>3, <2>1, <3>1, <3>2, <3>3 DEF Atomic!CreateDirect
  <2> QED
    BY <1>3, <2>2 DEF Atomic!Next
<1> QED
  BY <1>8, <1>9

LEMMA OnCommitMessage ==
    ASSUME IInv, NEW t \in Txs, CommitMessage(t)
    PROVE  IInv' /\ Atomic!Next
<1> DEFINE x == tx[t]
<1>1. /\ x \in Tx /\ Formed(x) /\ Safe(x) /\ RowsTypeOK /\ RowsInv
      /\ \A s \in Txs \ {t} : tx[s] \in Tx /\ Formed(tx[s]) /\ Safe(tx[s]) /\ Apart(x, tx[s])
  BY Known DEF IInv, TypeOK
<1>2. /\ tx' = [tx EXCEPT ![t] = Idle] /\ UNCHANGED ghosts /\ x.op \in {"send", "rename"} /\ x.pc = "commit"
      /\ WriteMessage(x.post, x.actor, x.chat, x.reply)
  BY <1>1 DEF CommitMessage, Commits, Ends, Formed
<1>3. /\ x.chat \in Chats /\ x.chat \in x.chats /\ Live(x.chat) /\ x.actor \in Users /\ IsActive(x.chat, x.actor)
      /\ x.post \in Messages /\ message[x.post] = FreeMessage /\ FreeMessage.chat = NoChat
      /\ x.reply \in Messages \cup {NoMessage}
      /\ x.op = "rename" => CanManage(x.chat, x.actor) /\ x.reply = NoMessage
      /\ x.reply # NoMessage => x.reply \in Posted(x.chat) /\ ~message[x.reply].deleted
  BY <1>1, <1>2, NullTypes DEF Formed, Safe, SafeChat, SafeMember, SafeRows, SafeReply, SafeDeleted, SafeNew, SafeUsers,
     HoldsChat, HoldsMember, Works, Writes, Refs, Role, Tx, InChat, Creating, Posting, Posted, FreeMessage
<1>4. RowsTypeOK' /\ RowsInv'
  BY <1>1, <1>2, <1>3, MessageRows
<1>5. /\ users' = users /\ chat' = chat /\ member' = member
      /\ \A m \in Messages \ {x.post} : message'[m] = message[m]
  BY <1>1, <1>2, <1>3 DEF RowsTypeOK, WriteMessage
<1> HIDE DEF x
<1>6. ASSUME NEW s \in Txs \ {t} PROVE Kept(tx[s])
  <2>1. x.chat \notin tx[s].chats
    BY <1>1, <1>3 DEF Apart
  <2>2. tx[s].op \in Creating => tx[s].chat \in Chats /\ ~Live(tx[s].chat)
    BY <1>1 DEF Formed, Safe, SafeNew, Live, FreeChat
  <2>3. tx[s].op \in Posting => tx[s].post \in Messages \ {x.post}
    BY <1>1, <1>2 DEF Apart, Formed, Posting
  <2>4. DirectChats(PairOf(tx[s])) = {} =>
          \A c \in Chats : chat'[c].state = "live" => chat'[c].key # PairOf(tx[s])
    BY <1>5 DEF DirectChats, PairOf, Live
  <2> QED
    BY <1>1, <1>3, <1>5, <2>1, <2>2, <2>3, <2>4 DEF Kept, Tx
<1>7. TypeOK'
  BY <1>2, <1>4, NullTypes DEF IInv, TypeOK
<1>8. IInv'
  BY <1>2, <1>4, <1>6, <1>7, GoesHome
<1>9. Atomic!Next
  <2>1. CASE x.op = "send"
    <3>1. Atomic!SendMessage(x.post, x.actor, x.chat, x.reply)
      BY <1>2, <1>3 DEF Atomic!SendMessage, Atomic!WriteMessage, Atomic!Answer, WriteMessage, Answer,
        Atomic!ActiveMembers, Atomic!IsActive, Atomic!Live, Atomic!CanManage, Atomic!CanBeRemoved, Atomic!CanDelete, Atomic!IsGroup, Atomic!Posted, Live, IsActive, CanManage, CanBeRemoved, CanDelete, IsGroup, ActiveMembers, Posted
    <3>2. x.actor \in Atomic!ActiveMembers(x.chat)
      BY <1>3 DEF Atomic!ActiveMembers, Atomic!IsActive, IsActive
    <3>3. Atomic!InChat(x.chat, x.actor)
      BY <1>3, <3>1 DEF Atomic!InChat, Atomic!Posted, Posted
    <3> QED
      BY <1>3, <3>2, <3>3 DEF Atomic!Next
  <2>2. CASE x.op = "rename"
    <3>1. Atomic!UpdateGroup(x.post, x.actor, x.chat)
      BY <1>2, <1>3, <2>2 DEF Atomic!UpdateGroup, Atomic!WriteMessage, Atomic!Answer, WriteMessage, Answer,
        Atomic!ActiveMembers, Atomic!IsActive, Atomic!Live, Atomic!CanManage, Atomic!CanBeRemoved, Atomic!CanDelete, Atomic!IsGroup, Atomic!Posted, Live, IsActive, CanManage, CanBeRemoved, CanDelete, IsGroup, ActiveMembers, Posted
    <3>2. x.actor \in Atomic!ActiveMembers(x.chat)
      BY <1>3 DEF Atomic!ActiveMembers, Atomic!IsActive, IsActive
    <3>3. Atomic!InChat(x.chat, x.actor)
      BY <1>3, <3>1 DEF Atomic!InChat
    <3> QED
      BY <1>3, <3>2, <3>3 DEF Atomic!Next
  <2> QED
    BY <1>2, <2>1, <2>2
<1> QED
  BY <1>8, <1>9

LEMMA OnCommitMembers ==
    ASSUME IInv, NEW t \in Txs, CommitMembers(t)
    PROVE  IInv' /\ Atomic!Next
<1> DEFINE x == tx[t]
<1>1. /\ x \in Tx /\ Formed(x) /\ Safe(x) /\ RowsTypeOK /\ RowsInv
      /\ \A s \in Txs \ {t} : tx[s] \in Tx /\ Formed(tx[s]) /\ Safe(tx[s]) /\ Apart(x, tx[s])
  BY Known DEF IInv, TypeOK
<1>2. /\ tx' = [tx EXCEPT ![t] = Idle] /\ UNCHANGED ghosts /\ x.op = "add" /\ x.pc = "commit"
      /\ WriteMembers(x.post, x.actor, x.chat, x.targets \ ActiveMembers(x.chat))
  BY <1>1 DEF CommitMembers, Commits, Ends, Formed
<1>3. /\ x.chat \in Chats /\ x.chat \in x.chats /\ Live(x.chat) /\ x.actor \in Users /\ IsActive(x.chat, x.actor)
      /\ x.post \in Messages /\ message[x.post] = FreeMessage /\ FreeMessage.chat = NoChat
      /\ CanManage(x.chat, x.actor) /\ IsGroup(x.chat) /\ x.targets \subseteq users
      /\ Cardinality(ActiveMembers(x.chat) \cup x.targets) <= MaxMembers
      /\ ActiveMembers(x.chat) \cup (x.targets \ ActiveMembers(x.chat)) = ActiveMembers(x.chat) \cup x.targets
  BY <1>1, <1>2, NullTypes DEF Formed, Safe, SafeChat, SafeMember, SafeRows, SafeReply, SafeDeleted, SafeNew, SafeUsers,
     HoldsChat, HoldsMember, Works, Writes, Refs, Role, Tx, InChat, Creating, Posting, RowsInv, MembersExist,
     WithinLimit, CanManage, FreeMessage
<1>4. RowsTypeOK' /\ RowsInv'
  BY <1>1, <1>2, <1>3, MembersRows
<1>5. /\ users' = users /\ chat' = chat
      /\ \A c \in Chats \ {x.chat} : member'[c] = member[c]
      /\ \A m \in Messages \ {x.post} : message'[m] = message[m]
  BY <1>1, <1>2, <1>3 DEF RowsTypeOK, WriteMembers
<1> HIDE DEF x
<1>6. ASSUME NEW s \in Txs \ {t} PROVE Kept(tx[s])
  <2>1. x.chat \notin tx[s].chats
    BY <1>1, <1>3 DEF Apart
  <2>2. tx[s].op \in Creating => tx[s].chat \in Chats /\ ~Live(tx[s].chat)
    BY <1>1 DEF Formed, Safe, SafeNew, Live, FreeChat
  <2>3. tx[s].op \in Posting => tx[s].post \in Messages \ {x.post}
    BY <1>1, <1>2 DEF Apart, Formed, Posting
  <2>4. DirectChats(PairOf(tx[s])) = {} =>
          \A c \in Chats : chat'[c].state = "live" => chat'[c].key # PairOf(tx[s])
    BY <1>5 DEF DirectChats, PairOf, Live
  <2> QED
    BY <1>1, <1>3, <1>5, <2>1, <2>2, <2>3, <2>4 DEF Kept, Tx
<1>7. TypeOK'
  BY <1>2, <1>4, NullTypes DEF IInv, TypeOK
<1>8. IInv'
  BY <1>2, <1>4, <1>6, <1>7, GoesHome
<1>9. Atomic!Next
  <2>1. Atomic!AddMembers(x.post, x.actor, x.chat, x.targets)
    <3>1. Atomic!ActiveMembers(x.chat) = ActiveMembers(x.chat)
      BY DEF Atomic!ActiveMembers, Atomic!IsActive, ActiveMembers, IsActive
    <3>2. Atomic!WriteMembers(x.post, x.actor, x.chat, x.targets \ ActiveMembers(x.chat))
      BY <1>2 DEF Atomic!WriteMembers, WriteMembers, Atomic!Posted, Posted, Atomic!MessageBy, MessageBy, Atomic!Answer, Answer
    <3> QED
      BY <1>3, <3>1, <3>2, SameCardinality DEF Atomic!AddMembers, Atomic!Live, Live, Atomic!CanManage, CanManage,
        Atomic!IsGroup, IsGroup
  <2>2. x.actor \in Atomic!ActiveMembers(x.chat)
    BY <1>3 DEF Atomic!ActiveMembers, Atomic!IsActive, IsActive
  <2>3. Atomic!InChat(x.chat, x.actor)
    BY <1>3, <2>1 DEF Atomic!InChat
  <2> QED
    BY <1>3, <2>2, <2>3 DEF Atomic!Next
<1> QED
  BY <1>8, <1>9

LEMMA OnCommitRemoved ==
    ASSUME IInv, NEW t \in Txs, CommitRemoved(t)
    PROVE  IInv' /\ Atomic!Next
<1> DEFINE x == tx[t]
<1>1. /\ x \in Tx /\ Formed(x) /\ Safe(x) /\ RowsTypeOK /\ RowsInv
      /\ \A s \in Txs \ {t} : tx[s] \in Tx /\ Formed(tx[s]) /\ Safe(tx[s]) /\ Apart(x, tx[s])
  BY Known DEF IInv, TypeOK
<1>2. /\ tx' = [tx EXCEPT ![t] = Idle] /\ UNCHANGED ghosts /\ x.op = "remove" /\ x.pc = "commit"
      /\ \E u \in x.targets : WriteLeft(x.post, x.actor, x.chat, u)
  BY <1>1 DEF CommitRemoved, Commits, Ends, Formed
<1>3. /\ x.chat \in Chats /\ x.chat \in x.chats /\ Live(x.chat) /\ x.actor \in Users /\ IsActive(x.chat, x.actor)
      /\ x.post \in Messages /\ message[x.post] = FreeMessage /\ FreeMessage.chat = NoChat
      /\ CanManage(x.chat, x.actor)
      /\ \E u \in Users : x.targets = {u} /\ CanBeRemoved(x.chat, u) /\ WriteLeft(x.post, x.actor, x.chat, u)
  BY <1>1, <1>2, NullTypes DEF Formed, Safe, SafeChat, SafeMember, SafeRows, SafeReply, SafeDeleted, SafeNew, SafeUsers,
     HoldsChat, HoldsMember, Works, Writes, Refs, Role, Tx, InChat, Creating, Posting, FreeMessage
<1>4. RowsTypeOK' /\ RowsInv'
  BY <1>1, <1>2, <1>3, LeftRows
<1>5. /\ users' = users /\ chat' = chat
      /\ \A c \in Chats \ {x.chat} : member'[c] = member[c]
      /\ \A m \in Messages \ {x.post} : message'[m] = message[m]
  BY <1>1, <1>2, <1>3 DEF RowsTypeOK, WriteLeft
<1> HIDE DEF x
<1>6. ASSUME NEW s \in Txs \ {t} PROVE Kept(tx[s])
  <2>1. x.chat \notin tx[s].chats
    BY <1>1, <1>3 DEF Apart
  <2>2. tx[s].op \in Creating => tx[s].chat \in Chats /\ ~Live(tx[s].chat)
    BY <1>1 DEF Formed, Safe, SafeNew, Live, FreeChat
  <2>3. tx[s].op \in Posting => tx[s].post \in Messages \ {x.post}
    BY <1>1, <1>2 DEF Apart, Formed, Posting
  <2>4. DirectChats(PairOf(tx[s])) = {} =>
          \A c \in Chats : chat'[c].state = "live" => chat'[c].key # PairOf(tx[s])
    BY <1>5 DEF DirectChats, PairOf, Live
  <2> QED
    BY <1>1, <1>3, <1>5, <2>1, <2>2, <2>3, <2>4 DEF Kept, Tx
<1>7. TypeOK'
  BY <1>2, <1>4, NullTypes DEF IInv, TypeOK
<1>8. IInv'
  BY <1>2, <1>4, <1>6, <1>7, GoesHome
<1>9. Atomic!Next
  <2>0. PICK u \in Users : CanBeRemoved(x.chat, u) /\ WriteLeft(x.post, x.actor, x.chat, u)
    BY <1>3
  <2>1. Atomic!RemoveMember(x.post, x.actor, x.chat, u)
    BY <1>3, <2>0 DEF Atomic!RemoveMember, Atomic!WriteLeft, WriteLeft, Atomic!MessageBy, MessageBy, Atomic!Answer, Answer,
      Atomic!ActiveMembers, Atomic!IsActive, Atomic!Live, Atomic!CanManage, Atomic!CanBeRemoved, Atomic!CanDelete, Atomic!IsGroup, Atomic!Posted, Live, IsActive, CanManage, CanBeRemoved, CanDelete, IsGroup, ActiveMembers, Posted
  <2>2. x.actor \in Atomic!ActiveMembers(x.chat)
    BY <1>3 DEF Atomic!ActiveMembers, Atomic!IsActive, IsActive
  <2>3. Atomic!InChat(x.chat, x.actor)
    BY <1>3, <2>0, <2>1 DEF Atomic!InChat, Atomic!ActiveMembers, Atomic!IsActive, CanBeRemoved
  <2> QED
    BY <1>3, <2>2, <2>3 DEF Atomic!Next
<1> QED
  BY <1>8, <1>9

LEMMA OnCommitLeft ==
    ASSUME IInv, NEW t \in Txs, CommitLeft(t)
    PROVE  IInv' /\ Atomic!Next
<1> DEFINE x == tx[t]
<1>1. /\ x \in Tx /\ Formed(x) /\ Safe(x) /\ RowsTypeOK /\ RowsInv
      /\ \A s \in Txs \ {t} : tx[s] \in Tx /\ Formed(tx[s]) /\ Safe(tx[s]) /\ Apart(x, tx[s])
  BY Known DEF IInv, TypeOK
<1>2. /\ tx' = [tx EXCEPT ![t] = Idle] /\ UNCHANGED ghosts /\ x.op = "leave" /\ x.pc = "commit"
      /\ WriteLeft(x.post, x.actor, x.chat, x.actor)
  BY <1>1 DEF CommitLeft, Commits, Ends, Formed
<1>3. /\ x.chat \in Chats /\ x.chat \in x.chats /\ Live(x.chat) /\ x.actor \in Users /\ IsActive(x.chat, x.actor)
      /\ x.post \in Messages /\ message[x.post] = FreeMessage /\ FreeMessage.chat = NoChat
      /\ CanBeRemoved(x.chat, x.actor)
  BY <1>1, <1>2, NullTypes DEF Formed, Safe, SafeChat, SafeMember, SafeRows, SafeReply, SafeDeleted, SafeNew, SafeUsers,
     HoldsChat, HoldsMember, Works, Writes, Refs, Role, Tx, InChat, Creating, Posting, FreeMessage
<1>4. RowsTypeOK' /\ RowsInv'
  BY <1>1, <1>2, <1>3, LeftRows
<1>5. /\ users' = users /\ chat' = chat
      /\ \A c \in Chats \ {x.chat} : member'[c] = member[c]
      /\ \A m \in Messages \ {x.post} : message'[m] = message[m]
  BY <1>1, <1>2, <1>3 DEF RowsTypeOK, WriteLeft
<1> HIDE DEF x
<1>6. ASSUME NEW s \in Txs \ {t} PROVE Kept(tx[s])
  <2>1. x.chat \notin tx[s].chats
    BY <1>1, <1>3 DEF Apart
  <2>2. tx[s].op \in Creating => tx[s].chat \in Chats /\ ~Live(tx[s].chat)
    BY <1>1 DEF Formed, Safe, SafeNew, Live, FreeChat
  <2>3. tx[s].op \in Posting => tx[s].post \in Messages \ {x.post}
    BY <1>1, <1>2 DEF Apart, Formed, Posting
  <2>4. DirectChats(PairOf(tx[s])) = {} =>
          \A c \in Chats : chat'[c].state = "live" => chat'[c].key # PairOf(tx[s])
    BY <1>5 DEF DirectChats, PairOf, Live
  <2> QED
    BY <1>1, <1>3, <1>5, <2>1, <2>2, <2>3, <2>4 DEF Kept, Tx
<1>7. TypeOK'
  BY <1>2, <1>4, NullTypes DEF IInv, TypeOK
<1>8. IInv'
  BY <1>2, <1>4, <1>6, <1>7, GoesHome
<1>9. Atomic!Next
  <2>1. Atomic!LeaveChat(x.post, x.actor, x.chat)
    BY <1>2, <1>3 DEF Atomic!LeaveChat, Atomic!WriteLeft, WriteLeft, Atomic!MessageBy, MessageBy, Atomic!Answer, Answer,
      Atomic!ActiveMembers, Atomic!IsActive, Atomic!Live, Atomic!CanManage, Atomic!CanBeRemoved, Atomic!CanDelete, Atomic!IsGroup, Atomic!Posted, Live, IsActive, CanManage, CanBeRemoved, CanDelete, IsGroup, ActiveMembers, Posted
  <2>2. x.actor \in Atomic!ActiveMembers(x.chat)
    BY <1>3 DEF Atomic!ActiveMembers, Atomic!IsActive, IsActive
  <2>3. Atomic!InChat(x.chat, x.actor)
    BY <1>3, <2>1 DEF Atomic!InChat
  <2> QED
    BY <1>3, <2>2, <2>3 DEF Atomic!Next
<1> QED
  BY <1>8, <1>9

LEMMA OnCommitDeletedMessage ==
    ASSUME IInv, NEW t \in Txs, CommitDeletedMessage(t)
    PROVE  IInv' /\ Atomic!Next
<1> DEFINE x == tx[t]
<1>1. /\ x \in Tx /\ Formed(x) /\ Safe(x) /\ RowsTypeOK /\ RowsInv
      /\ \A s \in Txs \ {t} : tx[s] \in Tx /\ Formed(tx[s]) /\ Safe(tx[s]) /\ Apart(x, tx[s])
  BY Known DEF IInv, TypeOK
<1>2. /\ tx' = [tx EXCEPT ![t] = Idle] /\ UNCHANGED ghosts /\ x.op = "deleteMessage" /\ x.pc = "commit"
      /\ WriteDeletedMessage(x.reply)
  BY <1>1 DEF CommitDeletedMessage, Commits, Ends, Formed
<1>3. /\ x.chat \in Chats /\ x.chat \in x.chats /\ Live(x.chat) /\ x.actor \in Users /\ IsActive(x.chat, x.actor)
      /\ x.reply \in Messages /\ x.reply \in x.messages /\ message[x.reply].chat = x.chat /\ x.chat # NoChat
      /\ message[x.reply].author = x.actor /\ ~message[x.reply].deleted
  BY <1>1, <1>2, NullTypes, NullAssumption DEF Formed, Safe, SafeChat, SafeMember, SafeRows, SafeReply, SafeDeleted, SafeNew, SafeUsers,
     HoldsChat, HoldsMember, Works, Writes, Refs, Role, Tx, InChat, Creating, Posting
<1>4. RowsTypeOK' /\ RowsInv'
  BY <1>1, <1>2, <1>3, DeletedMessageRows
<1>5. /\ users' = users /\ chat' = chat /\ member' = member
      /\ \A m \in Messages : message'[m].chat = message[m].chat
      /\ \A m \in Messages \ {x.reply} : message'[m] = message[m]
  BY <1>1, <1>2, <1>3 DEF RowsTypeOK, WriteDeletedMessage, MessageRow
<1> HIDE DEF x
<1>6. ASSUME NEW s \in Txs \ {t} PROVE Kept(tx[s])
  <2>1. x.chat \notin tx[s].chats
    BY <1>1, <1>3 DEF Apart
  <2>2. tx[s].op \in Creating => tx[s].chat \in Chats /\ ~Live(tx[s].chat)
    BY <1>1 DEF Formed, Safe, SafeNew, Live, FreeChat
  <2>3. tx[s].op \in Posting => tx[s].post \in Messages \ {x.reply}
    BY <1>1, <1>3 DEF Formed, Posting, Safe, SafeNew, FreeMessage
  <2>4. DirectChats(PairOf(tx[s])) = {} =>
          \A c \in Chats : chat'[c].state = "live" => chat'[c].key # PairOf(tx[s])
    BY <1>5 DEF DirectChats, PairOf, Live
  <2> QED
    BY <1>1, <1>3, <1>5, <2>1, <2>2, <2>3, <2>4 DEF Kept, Tx, Apart
<1>7. TypeOK'
  BY <1>2, <1>4, NullTypes DEF IInv, TypeOK
<1>8. IInv'
  BY <1>2, <1>4, <1>6, <1>7, GoesHome
<1>9. Atomic!Next
  <2>1. Atomic!DeleteMessage(x.reply, x.actor)
    BY <1>2, <1>3 DEF Atomic!DeleteMessage, Atomic!WriteDeletedMessage, WriteDeletedMessage,
      Atomic!ActiveMembers, Atomic!IsActive, Atomic!Live, Atomic!CanManage, Atomic!CanBeRemoved, Atomic!CanDelete, Atomic!IsGroup, Atomic!Posted, Live, IsActive, CanManage, CanBeRemoved, CanDelete, IsGroup, ActiveMembers, Posted
  <2>2. x.actor \in Atomic!ActiveMembers(x.chat)
    BY <1>3 DEF Atomic!ActiveMembers, Atomic!IsActive, IsActive
  <2>3. Atomic!InChat(x.chat, x.actor)
    BY <1>3, <2>1 DEF Atomic!InChat, Atomic!Posted
  <2> QED
    BY <1>3, <2>2, <2>3 DEF Atomic!Next
<1> QED
  BY <1>8, <1>9

LEMMA OnCommitDeletedChat ==
    ASSUME IInv, NEW t \in Txs, CommitDeletedChat(t)
    PROVE  IInv' /\ Atomic!Next
<1> DEFINE x == tx[t]
<1>1. /\ x \in Tx /\ Formed(x) /\ Safe(x) /\ RowsTypeOK /\ RowsInv
      /\ \A s \in Txs \ {t} : tx[s] \in Tx /\ Formed(tx[s]) /\ Safe(tx[s]) /\ Apart(x, tx[s])
  BY Known DEF IInv, TypeOK
<1>2. /\ tx' = [tx EXCEPT ![t] = Idle] /\ UNCHANGED ghosts /\ x.op = "deleteChat" /\ x.pc = "commit"
      /\ WriteDeletedChat(x.chat)
  BY <1>1 DEF CommitDeletedChat, Commits, Ends, Formed
<1>3. /\ x.chat \in Chats /\ x.chat \in x.chats /\ Live(x.chat) /\ x.actor \in Users /\ IsActive(x.chat, x.actor)
      /\ CanDelete(x.chat, x.actor)
  BY <1>1, <1>2, NullTypes DEF Formed, Safe, SafeChat, SafeMember, SafeRows, SafeReply, SafeDeleted, SafeNew, SafeUsers,
     HoldsChat, HoldsMember, Works, Writes, Refs, Role, Tx, InChat, Creating, Posting
<1>4. RowsTypeOK' /\ RowsInv'
  BY <1>1, <1>2, <1>3, DeletedChatRows
<1>5. /\ users' = users /\ member' = member /\ message' = message /\ chat'[x.chat].state = "deleted"
      /\ \A c \in Chats \ {x.chat} : chat'[c] = chat[c]
  BY <1>1, <1>2, <1>3 DEF RowsTypeOK, WriteDeletedChat, ChatRow
<1> HIDE DEF x
<1>6. ASSUME NEW s \in Txs \ {t} PROVE Kept(tx[s])
  <2>1. x.chat \notin tx[s].chats
    BY <1>1, <1>3 DEF Apart
  <2>2. tx[s].op \in Creating => tx[s].chat \in Chats /\ ~Live(tx[s].chat)
    BY <1>1 DEF Formed, Safe, SafeNew, Live, FreeChat
  <2>3. tx[s].op \in Posting => tx[s].post \in Messages
    BY <1>1 DEF Formed, Posting
  <2>4. DirectChats(PairOf(tx[s])) = {} =>
          \A c \in Chats : chat'[c].state = "live" => chat'[c].key # PairOf(tx[s])
    BY <1>5 DEF DirectChats, PairOf, Live
  <2> QED
    BY <1>1, <1>3, <1>5, <2>1, <2>2, <2>3, <2>4 DEF Kept, Tx
<1>7. TypeOK'
  BY <1>2, <1>4, NullTypes DEF IInv, TypeOK
<1>8. IInv'
  BY <1>2, <1>4, <1>6, <1>7, GoesHome
<1>9. Atomic!Next
  <2>1. Atomic!DeleteChat(x.chat, x.actor)
    BY <1>2, <1>3 DEF Atomic!DeleteChat, Atomic!WriteDeletedChat, WriteDeletedChat,
      Atomic!ActiveMembers, Atomic!IsActive, Atomic!Live, Atomic!CanManage, Atomic!CanBeRemoved, Atomic!CanDelete, Atomic!IsGroup, Atomic!Posted, Live, IsActive, CanManage, CanBeRemoved, CanDelete, IsGroup, ActiveMembers, Posted
  <2>2. x.actor \in Atomic!ActiveMembers(x.chat)
    BY <1>3 DEF Atomic!ActiveMembers, Atomic!IsActive, IsActive
  <2>3. Atomic!InChat(x.chat, x.actor)
    BY <1>3, <2>1 DEF Atomic!InChat
  <2> QED
    BY <1>3, <2>2, <2>3 DEF Atomic!Next
<1> QED
  BY <1>8, <1>9

LEMMA OnCommitRead ==
    ASSUME IInv, NEW t \in Txs, CommitRead(t)
    PROVE  IInv' /\ Atomic!Next
<1> DEFINE x == tx[t]
<1>1. /\ x \in Tx /\ Formed(x) /\ Safe(x) /\ RowsTypeOK /\ RowsInv
      /\ \A s \in Txs \ {t} : tx[s] \in Tx /\ Formed(tx[s]) /\ Safe(tx[s]) /\ Apart(x, tx[s])
  BY Known DEF IInv, TypeOK
<1>2. /\ tx' = [tx EXCEPT ![t] = Idle] /\ UNCHANGED ghosts /\ x.op = "markRead" /\ x.pc = "commit"
      /\ WriteRead(x.chat, x.actor, Posted(x.chat) \cup UNION {Stamped(s, x.chat) : s \in Txs})
  BY <1>1 DEF CommitRead, Commits, Ends, Formed
<1>3. /\ x.chat \in Chats /\ x.chat \in x.chats /\ Live(x.chat) /\ x.actor \in Users /\ IsActive(x.chat, x.actor)
      /\ WriteRead(x.chat, x.actor, Posted(x.chat))
  <2>1. /\ x.chat \in Chats /\ x.chat \in x.chats /\ Live(x.chat) /\ x.actor \in Users /\ IsActive(x.chat, x.actor)
    BY <1>1, <1>2, NullTypes DEF Formed, Safe, SafeChat, SafeMember, HoldsChat, HoldsMember, Works, Role, Tx, InChat
  <2>2. \A s \in Txs : Stamped(s, x.chat) = {}
    <3> SUFFICES ASSUME NEW s \in Txs, tx[s].op \in Posting, tx[s].pc \in {"write", "commit"}, tx[s].chat = x.chat
                 PROVE  FALSE
      BY DEF Stamped
    <3>1. s # t
      BY <1>2 DEF Posting
    <3>2. x.chat \in tx[s].chats
      BY <1>1, <3>1 DEF Safe, SafeChat, HoldsChat, HoldsMember, Works, InChat, Posting
    <3> QED
      BY <1>1, <2>1, <3>1, <3>2 DEF Apart
  <2>3. Posted(x.chat) \cup UNION {Stamped(s, x.chat) : s \in Txs} = Posted(x.chat)
    BY <2>2
  <2> QED
    BY <1>2, <2>1, <2>3
<1>4. RowsTypeOK' /\ RowsInv'
  BY <1>1, <1>3, ReadRows
<1>5. users' = users /\ chat' = chat /\ member' = member /\ message' = message
  BY <1>1, <1>2, <1>3 DEF RowsTypeOK, WriteRead
<1> HIDE DEF x
<1>6. ASSUME NEW s \in Txs \ {t} PROVE Kept(tx[s])
  <2>1. x.chat \notin tx[s].chats
    BY <1>1, <1>3 DEF Apart
  <2>2. tx[s].op \in Creating => tx[s].chat \in Chats /\ ~Live(tx[s].chat)
    BY <1>1 DEF Formed, Safe, SafeNew, Live, FreeChat
  <2>3. tx[s].op \in Posting => tx[s].post \in Messages
    BY <1>1 DEF Formed, Posting
  <2>4. DirectChats(PairOf(tx[s])) = {} =>
          \A c \in Chats : chat'[c].state = "live" => chat'[c].key # PairOf(tx[s])
    BY <1>5 DEF DirectChats, PairOf, Live
  <2> QED
    BY <1>1, <1>3, <1>5, <2>1, <2>2, <2>3, <2>4 DEF Kept, Tx
<1>7. TypeOK'
  BY <1>2, <1>4, NullTypes DEF IInv, TypeOK
<1>8. IInv'
  BY <1>2, <1>4, <1>6, <1>7, GoesHome
<1>9. Atomic!Next
  <2>1. Atomic!MarkRead(x.chat, x.actor)
    BY <1>2, <1>3 DEF Atomic!MarkRead, Atomic!WriteRead, WriteRead,
      Atomic!ActiveMembers, Atomic!IsActive, Atomic!Live, Atomic!CanManage, Atomic!CanBeRemoved, Atomic!CanDelete, Atomic!IsGroup, Atomic!Posted, Live, IsActive, CanManage, CanBeRemoved, CanDelete, IsGroup, ActiveMembers, Posted
  <2>2. x.actor \in Atomic!ActiveMembers(x.chat)
    BY <1>3 DEF Atomic!ActiveMembers, Atomic!IsActive, IsActive
  <2>3. Atomic!InChat(x.chat, x.actor)
    BY <1>3, <2>1 DEF Atomic!InChat
  <2> QED
    BY <1>3, <2>2, <2>3 DEF Atomic!Next
<1> QED
  BY <1>8, <1>9

LEMMA OnCommitDeletedUser ==
    ASSUME IInv, NEW t \in Txs, CommitDeletedUser(t)
    PROVE  IInv' /\ Atomic!Next
<1> DEFINE x == tx[t]
<1>1. /\ x \in Tx /\ Formed(x) /\ Safe(x) /\ RowsTypeOK /\ RowsInv
      /\ \A s \in Txs \ {t} : tx[s] \in Tx /\ Formed(tx[s]) /\ Safe(tx[s]) /\ Apart(x, tx[s])
  BY Known DEF IInv, TypeOK
<1>2. /\ tx' = [tx EXCEPT ![t] = Idle] /\ x.pc = "references" /\ WriteDeletedUser(x.actor)
      /\ ghosts' = ghosts \cup Memberships(x.actor, {c \in Chats : IsActive(c, x.actor) /\ c \notin x.want})
      /\ RowsFree(t, Memberships(x.actor, Joined(x.actor)))
      /\ MessagesFree(t, Authored(x.actor))
  BY <1>1 DEF CommitDeletedUser, Ends
<1>3. x.op = "deleteUser" /\ x.actor \in users /\ x.actor \in Users /\ x.actor # NoUser
  BY <1>1, <1>2, NullTypes, NullAssumption DEF Formed, Safe, SafeUsers, Deleted, Tx, Ops, InChat, Creating
<1>4. RowsTypeOK' /\ RowsInv'
  BY <1>1, <1>2, <1>3, DeletedUserRows
<1>5. /\ users' = users \ {x.actor}
      /\ \A c \in Chats : chat'[c].state = chat[c].state /\ chat'[c].key = chat[c].key
      /\ \A c \in Chats : chat[c].creator = NoUser => chat'[c] = chat[c]
      /\ \A c \in Chats, u \in Users : u # x.actor \/ member[c][u] = "none" => member'[c][u] = member[c][u]
      /\ \A m \in Messages : message'[m].chat = message[m].chat
      /\ \A m \in Messages : message[m].author # x.actor => message'[m] = message[m]
  BY <1>1, <1>2, <1>3 DEF RowsTypeOK, WriteDeletedUser, ChatRow, MessageRow
<1>6. \A s \in Txs \ {t} :
        /\ \A c \in Joined(x.actor) : <<c, x.actor>> \notin tx[s].rows
        /\ \A m \in Authored(x.actor) : m \notin tx[s].messages
  BY <1>2 DEF RowsFree, MessagesFree, Memberships
<1> HIDE DEF x
<1>7. ASSUME NEW s \in Txs \ {t} PROVE Kept(tx[s])
  <2>1. \A c \in tx[s].chats : \A u \in Users : <<c, u>> \in tx[s].rows \/ member[c][u] = "none" => member'[c][u] = member[c][u]
    BY <1>1, <1>5, <1>6 DEF Joined, Tx
  <2>2. tx[s].op \in Posting => tx[s].post \in Messages /\ message[tx[s].post].author = NoUser
    BY <1>1 DEF Formed, Posting, Safe, SafeNew, FreeMessage
  <2>3. tx[s].op \in Creating => tx[s].chat \in Chats /\ chat[tx[s].chat].creator = NoUser
    BY <1>1 DEF Formed, Safe, SafeNew, FreeChat
  <2>4. x.actor \notin Refs(tx[s]) \cup Deleted(tx[s])
    BY <1>1, <1>2, <1>3 DEF Apart, Deleted
  <2>5. DirectChats(PairOf(tx[s])) = {} =>
          \A c \in Chats : chat'[c].state = "live" => chat'[c].key # PairOf(tx[s])
    BY <1>5 DEF DirectChats, Live
  <2>6. \A m \in tx[s].messages : message'[m] = message[m]
    BY <1>1, <1>5, <1>6 DEF Authored, Tx
  <2>7. \A c \in tx[s].chats : c \in Chats
    BY <1>1 DEF Tx
  <2> QED
    BY <1>3, <1>5, <2>1, <2>2, <2>3, <2>4, <2>5, <2>6, <2>7 DEF Kept
<1>8. TypeOK'
  <2>1. \A C \in SUBSET Chats : Memberships(x.actor, C) \subseteq Chats \X Users
    BY <1>3 DEF Memberships
  <2>2. ghosts' \subseteq Chats \X Users
    BY <1>2, <2>1 DEF IInv, TypeOK
  <2> QED
    BY <1>2, <1>4, <2>2, NullTypes DEF IInv, TypeOK
<1>9. IInv'
  BY <1>2, <1>4, <1>7, <1>8, GoesHome
<1>10. Atomic!Next
  <2>1. Atomic!DeleteUser(x.actor)
    BY <1>2, <1>3 DEF Atomic!DeleteUser, Atomic!WriteDeletedUser, WriteDeletedUser
  <2> QED
    BY <1>3, <2>1 DEF Atomic!Next
<1> QED
  BY <1>9, <1>10
-----------------------------------------------------------------------------
(* The theorems *)

LEMMA IInvInit == Init => IInv /\ Atomic!RowsInit
<1> SUFFICES ASSUME Init PROVE IInv /\ Atomic!RowsInit
  OBVIOUS
<1>1. TypeOK
  BY NullTypes DEF Init, RowsInit, TypeOK, RowsTypeOK, MembershipStates
<1>2. \A c \in Chats : ActiveMembers(c) = {} /\ ~Live(c) /\ \A u \in Users : read[c][u] = {}
  BY DEF Init, RowsInit, ActiveMembers, IsActive, Live, FreeChat
<1>3. RowsInv
  BY <1>2 DEF Init, RowsInit, RowsInv, MembersExist, FreeIsEmpty, OnlyPostedIsRead, LimitKept, OneChatPerPair
<1>4. \A t \in Txs : tx[t] = Idle
  BY DEF Init
<1>5. IInv
  BY <1>1, <1>3, <1>4, IdleSafe DEF IInv
<1>6. Atomic!RowsInit
  BY DEF Init, RowsInit, Atomic!RowsInit, Atomic!FreeChat, FreeChat, Atomic!FreeMessage, FreeMessage
<1> QED
  BY <1>5, <1>6

LEMMA Unchanged == ASSUME IInv, UNCHANGED <<rows, tx, ghosts>> PROVE IInv'
<1>1. TypeOK'
  BY DEF IInv, TypeOK, RowsTypeOK, rows
<1>2. RowsInv'
  BY DEF IInv, RowsInv, rows, MembersExist, FreeIsEmpty, OnlyPostedIsRead, LimitKept, OneChatPerPair,
         ActiveMembers, IsActive, Posted, Live, IsGroup, DirectChats
<1>3. ASSUME NEW s \in Txs PROVE (Formed(tx[s]) /\ Safe(tx[s]))'
  <2>1. Formed(tx[s]) /\ Safe(tx[s])
    BY DEF IInv
  <2> QED
    BY <2>1 DEF rows, Formed, Safe, SafeChat, SafeMember, SafeRows, SafeReply, SafeDeleted, SafeNew, SafeUsers,
      HoldsChat, HoldsMember, Works, Writes, Refs, Deleted, Role, WithinLimit, CanManage, CanBeRemoved, CanDelete,
      ActiveMembers, IsActive, Live, IsGroup, DirectChats, PairOf
<1>4. ASSUME NEW s \in Txs, NEW r \in Txs, s # r PROVE Apart(tx[s], tx[r])'
  <2>1. Apart(tx[s], tx[r])
    BY <1>4 DEF IInv
  <2> QED
    BY <2>1 DEF rows, Apart, Refs, Deleted, PairOf, ActiveMembers, IsActive
<1> QED
  BY <1>1, <1>2, <1>3, <1>4 DEF IInv

(* A step keeps the invariant, and is a step of ChatsAtomic or changes no row. *)
LEMMA IInvNext == IInv /\ [Next]_vars => IInv' /\ [Atomic!Next]_(Atomic!rows)
<1> SUFFICES ASSUME IInv, [Next]_vars PROVE IInv' /\ [Atomic!Next]_(Atomic!rows)
  OBVIOUS
<1>1. ASSUME NEW t \in Txs, Request(t) PROVE IInv' /\ UNCHANGED rows
  <2>1. UNCHANGED rows
    BY <1>1 DEF Request, RequestInChat, BeginSend, BeginAdd, BeginRemove, BeginLeave, BeginRename, BeginMarkRead,
      BeginDeleteChat, BeginDeleteMessage, BeginCreateGroup, BeginCreateDirect, BeginDeleteUser, Start
  <2> QED
    BY <1>1, <2>1, OnRequest
<1>2. ASSUME NEW t \in Txs, Lock(t) PROVE IInv' /\ UNCHANGED rows
  <2>1. UNCHANGED rows
    BY <1>2 DEF Lock, LockChat, LockMember, LockReply, LockDeleted, LockRows, Write, InsertDirect, FindDirect,
      EndMemberships, AnonymizeMessages, AnonymizeChats, DeleteRow, Go
  <2>2. FindDirect(t) => Go(t, "idle", Idle)
    BY DEF FindDirect
  <2> QED
    BY <1>2, <2>1, <2>2, OnLockChat, OnLockMember, OnLockReply, OnLockDeleted, OnLockRows, OnWrite, OnInsertDirect,
      OnRollback, OnEndMemberships, OnAnonymizeMessages, OnAnonymizeChats, OnDeleteRow DEF Lock
<1>3. ASSUME NEW t \in Txs, Commit(t) PROVE IInv' /\ Atomic!Next
  BY <1>3, OnCommitGroup, OnCommitDirect, OnCommitMessage, OnCommitMembers, OnCommitRemoved, OnCommitLeft,
    OnCommitDeletedMessage, OnCommitDeletedChat, OnCommitRead, OnCommitDeletedUser DEF Commit
<1>4. ASSUME NEW t \in Txs, Rollback(t) PROVE IInv' /\ UNCHANGED rows
  BY <1>4, OnRollback DEF Rollback, Go
<1>5. CASE UNCHANGED vars
  <2>1. IInv'
    <3>1. rows' = rows /\ tx' = tx /\ ghosts' = ghosts
      BY <1>5 DEF vars
    <3> QED
      BY <3>1, Unchanged
  <2> QED
    BY <1>5, <2>1 DEF vars, rows, Atomic!rows
<1>6. UNCHANGED rows => UNCHANGED Atomic!rows
  BY DEF rows, Atomic!rows
<1> QED
  BY <1>1, <1>2, <1>3, <1>4, <1>5, <1>6 DEF Next

(* IInv holds in every reachable state. *)
LEMMA IInvAlways == Spec => []IInv
<1>1. IInv /\ [Next]_vars => IInv'
  BY IInvNext
<1> QED
  BY <1>1, IInvInit, PTL DEF Spec

(* Every reachable row and request is of its type. *)
THEOREM TypeCorrect == Spec => []TypeOK
<1>1. IInv => TypeOK
  BY DEF IInv
<1> QED
  BY <1>1, IInvAlways, PTL

(* The use cases, lock by lock, implement the single steps of ChatsAtomic:   *)
(* every commit is one of its steps, everything else changes no row.         *)
THEOREM UseCasesAtomic == Spec => WorksAtomically
<1>1. Init => Atomic!RowsInit
  BY IInvInit
<1>2. IInv /\ [Next]_vars => [Atomic!Next]_(Atomic!rows)
  BY IInvNext
<1> QED
  BY <1>1, <1>2, IInvAlways, PTL DEF Spec, WorksAtomically, Atomic!Spec

(* "Everything up to now is read" never covers a message nobody could see.   *)
THEOREM OnlyPostedAlwaysRead == Spec => []OnlyPostedIsRead
<1>1. IInv => OnlyPostedIsRead
  BY DEF IInv, RowsInv
<1> QED
  BY <1>1, IInvAlways, PTL

(* However many additions run at the same time, the limit of participants    *)
(* of a group is kept.                                                       *)
THEOREM LimitAlwaysKept == Spec => []LimitKept
<1>1. IInv => LimitKept
  BY DEF IInv, RowsInv
<1> QED
  BY <1>1, IInvAlways, PTL

(* A pair of users never has two direct chats, and is in the one it has.     *)
THEOREM OneChatPerPairAlways == Spec => []OneChatPerPair
<1>1. IInv => OneChatPerPair
  BY DEF IInv, RowsInv
<1> QED
  BY <1>1, IInvAlways, PTL

(* A request that has locked a chat, or that creates one, waits for nobody   *)
(* but those who delete a message or a user.                                 *)
LEMMA WaitsOnlyForChat ==
    ASSUME IInv, NEW s \in Txs, NEW t \in Txs, WaitsFor(t, s),
           tx[s].op \notin {"deleteMessage", "deleteUser"}, tx[t].op \notin {"deleteMessage", "deleteUser"}
    PROVE  \/ tx[t].pc = "chat" /\ tx[s].chats # {}
           \/ tx[s].pc = "commit"
<1> DEFINE x == tx[t]
           y == tx[s]
<1>1. /\ s # t /\ x \in Tx /\ y \in Tx /\ Formed(x) /\ Safe(x) /\ Formed(y) /\ Safe(y) /\ Apart(x, y)
  BY DEF IInv, TypeOK, WaitsFor
<1>2. x.op \in InChat \cup Creating
  <2>1. x.op # "idle"
    BY <1>1, NullTypes DEF WaitsFor, Formed
  <2> QED
    BY <1>1, <2>1 DEF Tx, Ops
<1>3. y.op \in InChat => /\ y.rows \subseteq {y.chat} \X Users /\ y.messages \subseteq {y.reply}
  BY <1>1 DEF Formed
<1>4. y.op \notin InChat => y.chats = {} /\ y.rows = {} /\ y.messages = {}
  BY <1>1, NullTypes DEF Formed, Tx, Ops
<1>5. CASE x.pc = "chat"
  BY <1>5 DEF WaitsFor
<1>6. CASE x.pc \in {"member", "message", "rows"}
  <2>1. /\ x.op \in InChat /\ x.chat \in Chats /\ x.actor \in Users /\ x.targets \subseteq Users
        /\ x.chat \in x.chats
    BY <1>1, <1>2, <1>6 DEF Formed, Creating, InChat, Safe, SafeChat, HoldsChat, HoldsMember, Works, Tx
  <2>2. y.rows \subseteq {y.chat} \X Users /\ y.messages \subseteq {y.reply}
        /\ (y.rows # {} \/ y.messages # {} => y.op \in InChat /\ y.chat \in y.chats)
    <3>1. CASE y.op \in InChat
      BY <1>1, <1>3, <3>1 DEF Formed, Safe, SafeChat, HoldsChat, HoldsMember, Works
    <3> QED
      BY <1>4, <3>1
  <2>3. y.chat # x.chat \/ (y.rows = {} /\ y.messages = {})
    BY <1>1, <2>1, <2>2 DEF Apart
  <2>4. CASE x.pc = "member"
    BY <2>1, <2>2, <2>3, <2>4 DEF WaitsFor
  <2>5. CASE x.pc = "rows"
    <3>1. FurtherRows(t) \subseteq {x.chat} \X Users
      BY <2>1 DEF FurtherRows
    <3> QED
      BY <2>2, <2>3, <2>5, <3>1 DEF WaitsFor
  <2>6. CASE x.pc = "message"
    <3>1. x.reply \in y.messages /\ y.reply = x.reply /\ x.reply \in Messages
      BY <1>1, <2>2, <2>6 DEF WaitsFor, Formed
    <3>2. message[x.reply].chat = x.chat /\ message[x.reply].chat = y.chat
      BY <1>1, <2>1, <2>2, <2>6, <3>1, NullAssumption DEF Formed, Safe, SafeReply, InChat
    <3> QED
      BY <2>3, <3>1, <3>2
  <2> QED
    BY <1>6, <2>4, <2>5, <2>6
<1>7. CASE x.pc = "write"
  <2>1. Deleting(s) = {}
    BY DEF Deleting
  <2> QED
    BY <1>7, <2>1 DEF WaitsFor, InsertedPair
<1>8. x.pc \in {"chat", "member", "message", "rows", "write"}
  BY <1>1, <1>2 DEF WaitsFor, Formed, Creating
<1> QED
  BY <1>1, <1>2, <1>5, <1>6, <1>7, <1>8

(* No circle of requests that wait for each other without one that deletes a *)
(* message or a user: who waits for a chat waits for one that has it, and    *)
(* whoever has it waits for nobody.                                          *)
THEOREM DeadlockAlwaysNeedsDeletion == Spec => []DeadlockNeedsDeletion
<1>1. IInv => DeadlockNeedsDeletion
  <2> SUFFICES ASSUME IInv, NEW D \in SUBSET Txs, D # {}, \A t \in D : \E s \in D : WaitsFor(t, s)
               PROVE  \E t \in D : tx[t].op \in {"deleteMessage", "deleteUser"}
    BY Zenon DEF DeadlockNeedsDeletion
  <2> SUFFICES ASSUME \A t \in D : tx[t].op \notin {"deleteMessage", "deleteUser"} PROVE FALSE
    OBVIOUS
  <2>1. \A s \in D : tx[s].pc # "commit"
    BY DEF WaitsFor
  <2>2. \A t \in D : tx[t].pc = "chat"
    BY <2>1, WaitsOnlyForChat
  <2>3. PICK t \in D : TRUE
    OBVIOUS
  <2>4. PICK s \in D : tx[s].chats # {}
    BY <2>1, <2>3, WaitsOnlyForChat
  <2>5. tx[s].pc = "chat" /\ Formed(tx[s]) /\ tx[s] \in Tx
    BY <2>2 DEF IInv, TypeOK
  <2>6. tx[s].op \in InChat \cup Creating \cup {"idle"}
    BY <2>5 DEF Tx, Ops
  <2> QED
    BY <2>4, <2>5, <2>6, NullTypes DEF Formed
<1> QED
  BY <1>1, IInvAlways, PTL
=============================================================================
