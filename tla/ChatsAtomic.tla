---------------------------- MODULE ChatsAtomic ----------------------------
(***************************************************************************)
(* What the chats plugin promises: every use case checks and writes in one *)
(* step, as if nobody else worked at that time.                            *)
(***************************************************************************)
EXTENDS ChatRows

CreateGroup(c, a, S) ==
    /\ chat[c].state = "free"
    /\ a \notin S /\ S # {} /\ S \cup {a} \subseteq users
    /\ Cardinality(S) + 1 <= MaxMembers
    /\ WriteGroup(c, a, S)

CreateDirect(c, a, b) ==
    /\ chat[c].state = "free" /\ DirectChats({a, b}) = {}
    /\ a # b /\ {a, b} \subseteq users
    /\ WriteDirect(c, a, b)

AddMembers(m, a, c, S) ==
    /\ Live(c) /\ CanManage(c, a) /\ S \subseteq users /\ message[m].chat = NoChat
    /\ Cardinality(ActiveMembers(c) \cup S) <= MaxMembers
    /\ WriteMembers(m, a, c, S \ ActiveMembers(c))

RemoveMember(m, a, c, u) ==
    /\ Live(c) /\ CanManage(c, a) /\ CanBeRemoved(c, u) /\ message[m].chat = NoChat
    /\ WriteLeft(m, a, c, u)

LeaveChat(m, a, c) ==
    /\ Live(c) /\ CanBeRemoved(c, a) /\ message[m].chat = NoChat
    /\ WriteLeft(m, a, c, a)

\* A renamed group is one more message.
UpdateGroup(m, a, c) ==
    /\ Live(c) /\ CanManage(c, a) /\ message[m].chat = NoChat
    /\ WriteMessage(m, a, c, NoMessage)

SendMessage(m, a, c, r) ==
    /\ Live(c) /\ IsActive(c, a) /\ message[m].chat = NoChat
    /\ r # NoMessage => r \in Posted(c) /\ ~message[r].deleted
    /\ WriteMessage(m, a, c, r)

DeleteMessage(m, a) ==
    /\ message[m].chat # NoChat /\ message[m].author = a /\ ~message[m].deleted
    /\ Live(message[m].chat) /\ IsActive(message[m].chat, a)
    /\ WriteDeletedMessage(m)

MarkRead(c, a) ==
    /\ Live(c) /\ IsActive(c, a)
    /\ WriteRead(c, a, Posted(c))

DeleteChat(c, a) ==
    /\ Live(c) /\ CanDelete(c, a)
    /\ WriteDeletedChat(c)

DeleteUser(u) == u \in users /\ WriteDeletedUser(u)

InChat(c, a) ==
    \/ \E m \in Messages :
        \/ LeaveChat(m, a, c) \/ UpdateGroup(m, a, c)
        \/ \E S \in SUBSET users : AddMembers(m, a, c, S)
        \/ \E u \in ActiveMembers(c) : RemoveMember(m, a, c, u)
        \/ \E r \in Posted(c) \cup {NoMessage} : SendMessage(m, a, c, r)
    \/ \E m \in Posted(c) : DeleteMessage(m, a)
    \/ MarkRead(c, a) \/ DeleteChat(c, a)

Next ==
    \/ \E c \in Chats, a \in users, S \in SUBSET users : CreateGroup(c, a, S)
    \/ \E c \in Chats, a, b \in users : CreateDirect(c, a, b)
    \/ \E c \in Chats : \E a \in ActiveMembers(c) : InChat(c, a)
    \/ \E u \in users : DeleteUser(u)

Spec == RowsInit /\ [][Next]_rows
=============================================================================
