------------------------------- MODULE Stores --------------------------------
(***************************************************************************)
(* The Store contract: one sequence of calls made on the four backends of  *)
(* storetest.Backends, sqlc on PostgreSQL, GORM on PostgreSQL, GORM on     *)
(* MySQL and Mem.  The calls of a suite are those of the services, made    *)
(* outside a transaction or by the callback of WithTx, with the services'  *)
(* discipline: a user-conversation row is written for a conversation that  *)
(* LockConversation has made, a member added to a group that exists, and a *)
(* callback that met a duplicate key returns it.  Times are the callers',  *)
(* in any order: two nodes need not agree on the clock.                    *)
(***************************************************************************)
EXTENDS Rows, SequencesExt

CONSTANTS Suites,           \* the suites to run, one per behaviour
          Users, Groups, Convs, Conns, Nodes,
          Times,            \* times a caller may pass
          Seqs,             \* sequence numbers, and message ids
          MaxCalls,         \* calls in one behaviour, per suite
          getMessagesChunk

VARIABLES suite,            \* the suite this behaviour runs
          dsn,              \* flags of the MySQL connection
          pg, gpg, my, mem, \* the tables of each backend
          tx,               \* {} or {tables when the open transaction began}
          failed,           \* the callback holds an error it must return
          torn,             \* Mem has kept the writes of a failed transaction
          last,             \* what the latest call returned, per backend
          calls

vars == <<suite, dsn, pg, gpg, my, mem, tx, failed, torn, last, calls>>

Pg == INSTANCE PgStore
Gpg == INSTANCE GormStore WITH driver <- "postgres"
My == INSTANCE GormStore WITH driver <- "mysql"
Mem == INSTANCE MemStore

NewMem == [users |-> <<>>, groups |-> <<>>, members |-> <<>>, convs |-> <<>>, ucs |-> <<>>,
           msgs |-> <<>>, online |-> <<>>]

Answer(r) == [err |-> r.err, val |-> r.val]

\* The stores that New opens, on empty tables.
Init ==
    /\ suite \in Suites
    /\ dsn \in [clientFoundRows : BOOLEAN, parseTime : BOOLEAN]
    /\ Gpg!New /\ My!New
    /\ pg = NewMem /\ gpg = NewMem /\ my = NewMem /\ mem = NewMem
    /\ tx = {} /\ failed = FALSE /\ torn = FALSE /\ calls = 0
    /\ last = [b \in {"pg", "gpg", "my", "mem"} |-> [err |-> Nil, val |-> {}]]

\* One call on the four backends.
Call(p, g, y, m) ==
    /\ calls < MaxCalls[suite] /\ ~failed
    /\ calls' = calls + 1
    /\ pg' = p.db /\ gpg' = g.db /\ my' = y.db /\ mem' = m.db
    /\ last' = [pg |-> Answer(p), gpg |-> Answer(g), my |-> Answer(y), mem |-> Answer(m)]
    /\ failed' = (tx # {} /\ p.err = "duplicate")
    /\ UNCHANGED <<suite, dsn, tx, torn>>

\* WithTx --------------------------------------------------------------------
Begin ==
    /\ tx = {} /\ suite # "caches" /\ calls < MaxCalls[suite]
    /\ tx' = {[pg |-> pg, gpg |-> gpg, my |-> my, mem |-> mem]}
    /\ UNCHANGED <<suite, dsn, pg, gpg, my, mem, failed, torn, last, calls>>

Commit ==
    /\ tx # {} /\ ~failed
    /\ tx' = {}
    /\ UNCHANGED <<suite, dsn, pg, gpg, my, mem, failed, torn, last, calls>>

\* The callback returns an error: its own, or one a call gave it.
Rollback ==
    \E before \in tx :
        /\ tx' = {} /\ failed' = FALSE
        /\ pg' = before.pg /\ gpg' = before.gpg /\ my' = before.my
        /\ torn' = (torn \/ mem # before.mem)
        /\ UNCHANGED <<suite, dsn, mem, last, calls>>

WithTx == Begin \/ Commit \/ Rollback

\* Users ---------------------------------------------------------------------
CreateUser ==
    \E id \in Users, nick \in Users, t \in Times :
        LET row == [username |-> id, nickname |-> nick, avatar |-> 1, created |-> t, updated |-> t]
        IN  Call(Pg!CreateUser(pg, id, row), Gpg!CreateUser(gpg, id, row),
                 My!CreateUser(my, id, row), Mem!CreateUser(mem, id, row))

UpsertUser ==
    \E id \in Users, nick \in Users, t \in Times :
        Call(Pg!UpsertUser(pg, id, nick, 2, t), Gpg!UpsertUser(gpg, id, nick, 2, t),
             My!UpsertUser(my, id, nick, 2, t), Mem!UpsertUser(mem, id, nick, 2, t))

Optional(S) == {{}} \cup {{x} : x \in S}

UpdateUserProfile ==
    \E id \in Users, nick \in Optional(Users), av \in Optional({1}), t \in Times :
        Call(Pg!UpdateUserProfile(pg, id, nick, av, t), Gpg!UpdateUserProfile(gpg, id, nick, av, t),
             My!UpdateUserProfile(my, id, nick, av, t), Mem!UpdateUserProfile(mem, id, nick, av, t))

UsersSuite == suite = "users" /\ (CreateUser \/ UpsertUser \/ UpdateUserProfile)

\* Groups --------------------------------------------------------------------
CreateGroup ==
    \E g \in Groups, M \in SUBSET Users, t \in Times :
        LET row == [owner |-> 1]
            members == [k \in {g} \X M |-> [role |-> 1, joined |-> t]]
        IN  Call(Pg!CreateGroup(pg, g, row, members), Gpg!CreateGroup(gpg, g, row, members),
                 My!CreateGroup(my, g, row, members), Mem!CreateGroup(mem, g, row, members))

AddGroupMember ==
    \E g \in DOMAIN pg.groups, u \in Users, t \in Times :
        LET row == [role |-> 2, joined |-> t]
        IN  Call(Pg!AddGroupMember(pg, g, u, row), Gpg!AddGroupMember(gpg, g, u, row),
                 My!AddGroupMember(my, g, u, row), Mem!AddGroupMember(mem, g, u, row))

RemoveGroupMember ==
    \E g \in Groups, u \in Users :
        Call(Pg!RemoveGroupMember(pg, g, u), Gpg!RemoveGroupMember(gpg, g, u),
             My!RemoveGroupMember(my, g, u), Mem!RemoveGroupMember(mem, g, u))

GroupsSuite == suite = "groups" /\ (CreateGroup \/ AddGroupMember \/ RemoveGroupMember)

\* Conversations and messages ------------------------------------------------
LockConversation ==
    \E c \in Convs, t \in Times :
        Call(Pg!LockConversation(pg, c, t), Gpg!LockConversation(gpg, c, t),
             My!LockConversation(my, c, t), Mem!LockConversation(mem, c, t))

Locked == DOMAIN pg.convs

\* A row as Join writes it: visible from the next message on.
UpsertUserConversation ==
    \E o \in Users, c \in Locked, min \in Seqs, t \in Times :
        LET row == [peer |-> 0, min |-> min, max |-> 0, read |-> min - 1, opt |-> 0,
                    pinned |-> FALSE, updated |-> t, created |-> 0]
        IN  Call(Pg!UpsertUserConversation(pg, o, c, row), Gpg!UpsertUserConversation(gpg, o, c, row),
                 My!UpsertUserConversation(my, o, c, row), Mem!UpsertUserConversation(mem, o, c, row))

CreateUserConversations ==
    \E O \in SUBSET Users, c \in Locked, t \in Times :
        LET rows == [k \in O \X {c} |-> [peer |-> 0, min |-> 1, max |-> 0, read |-> 0, opt |-> 0,
                                         pinned |-> FALSE, updated |-> t, created |-> 0]]
        IN  Call(Pg!CreateUserConversations(pg, rows), Gpg!CreateUserConversations(gpg, rows),
                 My!CreateUserConversations(my, rows), Mem!CreateUserConversations(mem, rows))

SetUserConversationMaxSeq ==
    \E o \in Users, c \in Locked, max \in Seqs :
        Call(Pg!SetUserConversationMaxSeq(pg, o, c, max), Gpg!SetUserConversationMaxSeq(gpg, o, c, max),
             My!SetUserConversationMaxSeq(my, o, c, max), Mem!SetUserConversationMaxSeq(mem, o, c, max))

DeleteUserConversation ==
    \E o \in Users, c \in Locked :
        Call(Pg!DeleteUserConversation(pg, o, c), Gpg!DeleteUserConversation(gpg, o, c),
             My!DeleteUserConversation(my, o, c), Mem!DeleteUserConversation(mem, o, c))

SetUserConversationOpt ==
    \E o \in Users, c \in Convs, opt \in Optional({0, 1}), pin \in Optional({TRUE}) :
        Call(Pg!SetUserConversationOpt(pg, o, c, opt, pin), Gpg!SetUserConversationOpt(gpg, o, c, opt, pin),
             My!SetUserConversationOpt(my, o, c, opt, pin), Mem!SetUserConversationOpt(mem, o, c, opt, pin))

ConversationsSuite ==
    /\ suite = "conversations"
    /\ \/ LockConversation \/ UpsertUserConversation \/ CreateUserConversations
       \/ SetUserConversationMaxSeq \/ DeleteUserConversation \/ SetUserConversationOpt

InsertMessage ==
    \E c \in Convs, seq \in Seqs, server \in Seqs, client \in Seqs, sender \in Users :
        LET row == [server |-> server, client |-> client, sender |-> sender]
        IN  Call(Pg!InsertMessage(pg, c, seq, row), Gpg!InsertMessage(gpg, c, seq, row),
                 My!InsertMessage(my, c, seq, row), Mem!InsertMessage(mem, c, seq, row))

MessagesSuite == suite = "messages" /\ InsertMessage

SetConversationMaxSeq ==
    \E c \in Locked, max \in Seqs, t \in Times :
        Call(Pg!SetConversationMaxSeq(pg, c, max, t), Gpg!SetConversationMaxSeq(gpg, c, max, t),
             My!SetConversationMaxSeq(my, c, max, t), Mem!SetConversationMaxSeq(mem, c, max, t))

TouchUserConversation ==
    \E o \in Users, c \in Locked, read \in {0, 1}, t \in Times :
        Call(Pg!TouchUserConversation(pg, o, c, 1, read, t), Gpg!TouchUserConversation(gpg, o, c, 1, read, t),
             My!TouchUserConversation(my, o, c, 1, read, t), Mem!TouchUserConversation(mem, o, c, 1, read, t))

TouchConversationMembers ==
    \E c \in Locked, t \in Times :
        Call(Pg!TouchConversationMembers(pg, c, t), Gpg!TouchConversationMembers(gpg, c, t),
             My!TouchConversationMembers(my, c, t), Mem!TouchConversationMembers(mem, c, t))

AdvanceReadSeq ==
    \E o \in Users, c \in Locked, read \in Seqs :
        Call(Pg!AdvanceReadSeq(pg, o, c, read), Gpg!AdvanceReadSeq(gpg, o, c, read),
             My!AdvanceReadSeq(my, o, c, read), Mem!AdvanceReadSeq(mem, o, c, read))

CursorsSuite ==
    /\ suite = "cursors"
    /\ \/ LockConversation \/ SetConversationMaxSeq \/ TouchUserConversation
       \/ TouchConversationMembers \/ AdvanceReadSeq \/ SetUserConversationMaxSeq

\* Online connections --------------------------------------------------------
UpsertOnlineConn ==
    \E conn \in Conns, u \in Users, n \in Nodes, t \in Times :
        LET row == [user |-> u, node |-> n, beat |-> t]
        IN  Call(Pg!UpsertOnlineConn(pg, conn, row), Gpg!UpsertOnlineConn(gpg, conn, row),
                 My!UpsertOnlineConn(my, conn, row), Mem!UpsertOnlineConn(mem, conn, row))

DeleteOnlineConn ==
    \E conn \in Conns :
        Call(Pg!DeleteOnlineConn(pg, conn), Gpg!DeleteOnlineConn(gpg, conn),
             My!DeleteOnlineConn(my, conn), Mem!DeleteOnlineConn(mem, conn))

RenewOnlineConns ==
    \E n \in Nodes, C \in SUBSET Conns, t \in Times :
        Call(Pg!RenewOnlineConns(pg, n, C, t), Gpg!RenewOnlineConns(gpg, n, C, t),
             My!RenewOnlineConns(my, n, C, t), Mem!RenewOnlineConns(mem, n, C, t))

DeleteOnlineConnsByNode ==
    \E n \in Nodes :
        Call(Pg!DeleteOnlineConnsByNode(pg, n), Gpg!DeleteOnlineConnsByNode(gpg, n),
             My!DeleteOnlineConnsByNode(my, n), Mem!DeleteOnlineConnsByNode(mem, n))

OnlineSuite ==
    /\ suite = "online"
    /\ UpsertOnlineConn \/ DeleteOnlineConn \/ RenewOnlineConns \/ DeleteOnlineConnsByNode

Next == WithTx \/ UsersSuite \/ GroupsSuite \/ ConversationsSuite \/ CursorsSuite \/ MessagesSuite
        \/ OnlineSuite

Spec == Init /\ [][Next]_vars

-----------------------------------------------------------------------------
\* The four answers to one query; Mem's counts while no transaction was torn.
Same(p, g, y, m) ==
    /\ Answer(p) = Answer(g) /\ Answer(g) = Answer(y)
    /\ torn \/ Answer(m) = Answer(p)

UserQueries ==
    /\ \A id \in Users :
        /\ Same(Pg!GetUser(pg, id), Gpg!GetUser(gpg, id), My!GetUser(my, id), Mem!GetUser(mem, id))
        /\ Same(Pg!GetUserByUsername(pg, id), Gpg!GetUserByUsername(gpg, id),
                My!GetUserByUsername(my, id), Mem!GetUserByUsername(mem, id))
    /\ \A ids \in SUBSET Users :
        Same(Pg!GetUsers(pg, ids), Gpg!GetUsers(gpg, ids), My!GetUsers(my, ids), Mem!GetUsers(mem, ids))

GroupQueries ==
    /\ \A g \in Groups :
        /\ Same(Pg!GetGroup(pg, g), Gpg!GetGroup(gpg, g), My!GetGroup(my, g), Mem!GetGroup(mem, g))
        /\ Same(Pg!ListGroupMembers(pg, g), Gpg!ListGroupMembers(gpg, g),
                My!ListGroupMembers(my, g), Mem!ListGroupMembers(mem, g))
        /\ Same(Pg!CountGroupMembers(pg, g), Gpg!CountGroupMembers(gpg, g),
                My!CountGroupMembers(my, g), Mem!CountGroupMembers(mem, g))
        /\ \A u \in Users :
            Same(Pg!GetGroupMember(pg, g, u), Gpg!GetGroupMember(gpg, g, u),
                 My!GetGroupMember(my, g, u), Mem!GetGroupMember(mem, g, u))
    /\ \A u \in Users :
        Same(Pg!ListUserGroupIds(pg, u), Gpg!ListUserGroupIds(gpg, u),
             My!ListUserGroupIds(my, u), Mem!ListUserGroupIds(mem, u))

ConversationQueries ==
    /\ \A c \in Convs :
        Same(Pg!GetConversation(pg, c), Gpg!GetConversation(gpg, c),
             My!GetConversation(my, c), Mem!GetConversation(mem, c))
    /\ \A c \in Convs, O \in SUBSET Users :
        /\ Same(Pg!MutedOwners(pg, c, O), Gpg!MutedOwners(gpg, c, O),
                My!MutedOwners(my, c, O), Mem!MutedOwners(mem, c, O))
        /\ \A seq \in Seqs :
            Same(Pg!VisibleOwners(pg, c, O, seq), Gpg!VisibleOwners(gpg, c, O, seq),
                 My!VisibleOwners(my, c, O, seq), Mem!VisibleOwners(mem, c, O, seq))
    /\ \A o \in Users, c \in Convs :
        /\ Same(Pg!GetUserConversation(pg, o, c), Gpg!GetUserConversation(gpg, o, c),
                My!GetUserConversation(my, o, c), Mem!GetUserConversation(mem, o, c))
        /\ Same(Pg!GetUserConversationRow(pg, o, c), Gpg!GetUserConversationRow(gpg, o, c),
                My!GetUserConversationRow(my, o, c), Mem!GetUserConversationRow(mem, o, c))
        /\ \A t \in Times, n \in 1..2 :
            Same(Pg!ListUserConversations(pg, o, <<t, c>>, n), Gpg!ListUserConversations(gpg, o, <<t, c>>, n),
                 My!ListUserConversations(my, o, <<t, c>>, n), Mem!ListUserConversations(mem, o, <<t, c>>, n))

MessageQueries ==
    /\ \A c \in Convs, u \in Users, x \in Seqs, y \in Seqs :
        /\ Same(Pg!GetMessageByClientId(pg, c, u, x), Gpg!GetMessageByClientId(gpg, c, u, x),
                My!GetMessageByClientId(my, c, u, x), Mem!GetMessageByClientId(mem, c, u, x))
        /\ Same(Pg!ListMessages(pg, c, x, y, u), Gpg!ListMessages(gpg, c, x, y, u),
                My!ListMessages(my, c, x, y, u), Mem!ListMessages(mem, c, x, y, u))
    /\ \A K \in SUBSET (Convs \X Seqs) :
        LET keys == SetToSeq(K)
        IN  Same(Pg!GetMessages(pg, keys), Gpg!GetMessages(gpg, keys),
                 My!GetMessages(my, keys), Mem!GetMessages(mem, keys))

OnlineQueries ==
    \A U \in SUBSET Users, t \in Times :
        Same(Pg!ListOnlineConns(pg, U, t), Gpg!ListOnlineConns(gpg, U, t),
             My!ListOnlineConns(my, U, t), Mem!ListOnlineConns(mem, U, t))

\* Whatever calls were made, in and out of transactions that commit or fail, the
\* three database backends hold the same rows and answered the latest call alike:
\* a MySQL connection that counts changed rows tells a missing row and a duplicate
\* message apart as well as PostgreSQL does (UpdateUserProfile,
\* SetUserConversationOpt, InsertMessage, checkMysqlDsn).
SqlStoresAgree ==
    pg = gpg /\ gpg = my /\ last.pg = last.gpg /\ last.gpg = last.my

\* Until a transaction that wrote something fails, Mem holds the rows the databases
\* hold and answers as they do: a service suite that passes on Mem exercises the
\* service on the states a database would have.
MemAgrees == ~torn => mem = pg /\ last.mem = last.pg

\* Every query of the Store interface has the same answer on the four backends, in
\* every state their calls can reach: page order, page limit, cursor comparison,
\* visibility bounds, chunked key lists and heartbeat cut-off included.
QueriesAgree ==
    CASE suite = "users" -> UserQueries
      [] suite = "groups" -> GroupQueries
      [] suite \in {"conversations", "cursors"} -> ConversationQueries
      [] suite = "messages" -> MessageQueries
      [] suite = "online" -> OnlineQueries
      [] OTHER -> TRUE

\* The contract of store.Store: the backends hold the same rows and answer calls and
\* queries alike.
StoresAgree == SqlStoresAgree /\ MemAgrees /\ QueriesAgree
=============================================================================
