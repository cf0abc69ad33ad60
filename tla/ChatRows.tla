------------------------------ MODULE ChatRows ------------------------------
(***************************************************************************)
(* The committed rows of the chats plugin and what each use case writes to *)
(* them.  ChatsAtomic takes these writes as single steps; Chats takes them *)
(* at the end of transactions that lock and check row by row.              *)
(***************************************************************************)
EXTENDS Naturals, FiniteSets

CONSTANTS
    Users, Chats, Messages,
    MaxMembers,               \* CHAT_LIMITS.maximumGroupParticipants
    NoUser, NoChat, NoMessage

ASSUME NullAssumption ==
    NoUser \notin Users /\ NoChat \notin Chats /\ NoMessage \notin Messages
ASSUME MaxMembersAssumption == MaxMembers \in Nat
ASSUME UsersAssumption == IsFiniteSet(Users)

VARIABLES
    users,     \* the users that exist
    chat,      \* chats: key is the pair of direct_key, {} for a group
    member,    \* chat_members: what the row says of the user's membership
    read,      \* messages up to last_read_at, for every membership
    message    \* chat_messages

rows == <<users, chat, member, read, message>>

ChatRow == [state : {"free", "live", "deleted"}, creator : Users \cup {NoUser}, key : SUBSET Users]
MessageRow == [chat : Chats \cup {NoChat}, author : Users \cup {NoUser},
               reply : Messages \cup {NoMessage}, deleted : BOOLEAN]

\* "free" is a row that has not been inserted; of several memberships that a
\* user has had in one chat only the last one counts (findMembership).
FreeChat == [state |-> "free", creator |-> NoUser, key |-> {}]
FreeMessage == [chat |-> NoChat, author |-> NoUser, reply |-> NoMessage, deleted |-> FALSE]
MembershipStates == {"none", "owner", "member", "left"}

RowsTypeOK ==
    /\ users \subseteq Users
    /\ chat \in [Chats -> ChatRow]
    /\ member \in [Chats -> [Users -> MembershipStates]]
    /\ read \in [Chats -> [Users -> SUBSET Messages]]
    /\ message \in [Messages -> MessageRow]

RowsInit ==
    /\ users = Users
    /\ chat = [c \in Chats |-> FreeChat]
    /\ member = [c \in Chats |-> [u \in Users |-> "none"]]
    /\ read = [c \in Chats |-> [u \in Users |-> {}]]
    /\ message = [m \in Messages |-> FreeMessage]

-----------------------------------------------------------------------------
Live(c) == chat[c].state = "live"
IsGroup(c) == chat[c].key = {}
IsActive(c, u) == member[c][u] \in {"owner", "member"}
ActiveMembers(c) == {u \in Users : IsActive(c, u)}
Posted(c) == {m \in Messages : message[m].chat = c}

\* findByDirectKey
DirectChats(pair) == {c \in Chats : Live(c) /\ chat[c].key = pair}

\* What the roles allow: assertCanManageMembers, assertMemberCanBeRemoved,
\* canDeleteChat.
CanManage(c, u) == IsGroup(c) /\ member[c][u] = "owner"
CanBeRemoved(c, u) == IsGroup(c) /\ member[c][u] = "member"
CanDelete(c, u) == IsActive(c, u) /\ (~IsGroup(c) \/ member[c][u] = "owner")

-----------------------------------------------------------------------------
(***************************************************************************)
(* Writes.  The system messages of one addition count as one message; a    *)
(* membership is created as read up to now, that message included.         *)
(***************************************************************************)
\* What a posts in c: an answer to r, or not; a system message is not.
Answer(a, c, r) == [chat |-> c, author |-> a, reply |-> r, deleted |-> FALSE]
MessageBy(a, c) == Answer(a, c, NoMessage)

WriteGroup(c, a, S) ==
    /\ chat' = [chat EXCEPT ![c] = [state |-> "live", creator |-> a, key |-> {}]]
    /\ member' = [member EXCEPT ![c] =
            [u \in Users |-> IF u = a THEN "owner" ELSE IF u \in S THEN "member" ELSE "none"]]
    /\ UNCHANGED <<users, read, message>>

WriteDirect(c, a, b) ==
    /\ chat' = [chat EXCEPT ![c] = [state |-> "live", creator |-> a, key |-> {a, b}]]
    /\ member' = [member EXCEPT ![c] = [u \in Users |-> IF u \in {a, b} THEN "member" ELSE "none"]]
    /\ UNCHANGED <<users, read, message>>

WriteMessage(m, a, c, r) ==
    /\ message' = [message EXCEPT ![m] = Answer(a, c, r)]
    /\ UNCHANGED <<users, chat, member, read>>

\* N are the users of the addition that were not active yet.
WriteMembers(m, a, c, N) ==
    /\ member' = [member EXCEPT ![c] = [u \in Users |-> IF u \in N THEN "member" ELSE @[u]]]
    /\ message' = IF N = {} THEN message ELSE [message EXCEPT ![m] = MessageBy(a, c)]
    /\ read' = [read EXCEPT ![c] = [u \in Users |-> IF u \in N THEN Posted(c) \cup {m} ELSE @[u]]]
    /\ UNCHANGED <<users, chat>>

WriteLeft(m, a, c, u) ==
    /\ member' = [member EXCEPT ![c][u] = "left"]
    /\ read' = [read EXCEPT ![c][u] = {}]
    /\ message' = [message EXCEPT ![m] = MessageBy(a, c)]
    /\ UNCHANGED <<users, chat>>

WriteRead(c, u, M) ==
    /\ read' = [read EXCEPT ![c][u] = M]
    /\ UNCHANGED <<users, chat, member, message>>

WriteDeletedMessage(m) ==
    /\ message' = [message EXCEPT ![m].deleted = TRUE]
    /\ UNCHANGED <<users, chat, member, read>>

WriteDeletedChat(c) ==
    /\ chat' = [chat EXCEPT ![c].state = "deleted", ![c].key = {}]
    /\ UNCHANGED <<users, member, read, message>>

\* The foreign keys end with the use case what the use case did not see.
WriteDeletedUser(u) ==
    /\ users' = users \ {u}
    /\ chat' = [c \in Chats |-> IF chat[c].creator = u THEN [chat[c] EXCEPT !.creator = NoUser] ELSE chat[c]]
    /\ member' = [c \in Chats |-> IF member[c][u] = "none" THEN member[c] ELSE [member[c] EXCEPT ![u] = "left"]]
    /\ read' = [c \in Chats |-> [read[c] EXCEPT ![u] = {}]]
    /\ message' = [m \in Messages |->
            IF message[m].author = u THEN [message[m] EXCEPT !.author = NoUser] ELSE message[m]]
=============================================================================
