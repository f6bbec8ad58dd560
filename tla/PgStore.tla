------------------------------- MODULE PgStore -------------------------------
(***************************************************************************)
(* internal/store/pgstore: the Store over PostgreSQL, each method a call   *)
(* of one or two generated queries and a translation of their outcome.     *)
(* A method maps the tables and its arguments to a result of module Rows.  *)
(***************************************************************************)
EXTENDS PgQueries

wrap(e) == CASE e = "no_rows" -> "not_found"
             [] e = "unique_violation" -> "duplicate"
             [] OTHER -> e

\* A :one query: no row is an error.  A set of several rows stands for any of them.
One(db, rows) == IF rows = {} THEN Fails(db, wrap("no_rows")) ELSE Returns(db, rows)

\* A statement on one table, with what the method returns when it succeeds.
Exec(db, name, st, val) ==
    IF st.err # Nil THEN Fails(db, wrap(st.err)) ELSE Returns([db EXCEPT ![name] = st.tab], val)

\* store.go -----------------------------------------------------------------
GetUser(db, id) == One(db, getUser(db.users, id))

GetUsers(db, ids) == Returns(db, getUsers(db.users, ids))

GetUserByUsername(db, username) == One(db, getUserByUsername(db.users, username))

CreateUser(db, id, row) == Exec(db, "users", createUser(db.users, id, row), {})

UpdateUserProfile(db, id, nickname, avatar, now) ==
    LET st == updateUserProfile(db.users, id, nickname, avatar, now)
    IN  IF st.err = Nil /\ st.n = 0 THEN Fails(db, "not_found") ELSE Exec(db, "users", st, {})

UpsertUser(db, id, nickname, avatar, now) ==
    Exec(db, "users", upsertUser(db.users, id, nickname, avatar, now), {})

\* group.go -----------------------------------------------------------------
\* The group's row, then its members' rows: two statements, one after the other.
CreateGroup(db, g, row, members) ==
    LET created == Exec(db, "groups", createGroup(db.groups, g, row), {})
    IN  IF created.err # Nil THEN created
        ELSE Exec(created.db, "members", addGroupMembers(db.members, members), {})

GetGroup(db, g) == One(db, getGroup(db.groups, g))

AddGroupMember(db, g, u, row) == Exec(db, "members", addGroupMember(db.members, g, u, row), {})

RemoveGroupMember(db, g, u) ==
    LET st == removeGroupMember(db.members, g, u) IN Exec(db, "members", st, {st.n > 0})

GetGroupMember(db, g, u) == One(db, getGroupMember(db.members, g, u))

ListGroupMembers(db, g) == Returns(db, {listGroupMembers(db.members, g)})

CountGroupMembers(db, g) == Returns(db, {countGroupMembers(db.members, g)})

ListUserGroupIds(db, u) == Returns(db, listUserGroupIds(db.members, u))

LockConversation(db, c, now) ==
    LET made == Exec(db, "convs", insertConversationIfMissing(db.convs, c, now), {})
    IN  IF made.err # Nil THEN made ELSE One(made.db, lockConversation(made.db.convs, c))

GetUserConversation(db, o, c) == One(db, getUserConversation(db.ucs, o, c))

GetUserConversationRow(db, o, c) == One(db, getUserConversationRow(db.ucs, db.convs, o, c))

UpsertUserConversation(db, o, c, row) ==
    Exec(db, "ucs", upsertUserConversation(db.ucs, o, c, row), {})

SetUserConversationMaxSeq(db, o, c, max) ==
    Exec(db, "ucs", setUserConversationMaxSeq(db.ucs, o, c, max), {})

DeleteUserConversation(db, o, c) == Exec(db, "ucs", deleteUserConversation(db.ucs, o, c), {})

VisibleOwners(db, c, owners, seq) ==
    IF owners = {} THEN Returns(db, {}) ELSE Returns(db, visibleOwners(db.ucs, c, owners, seq))

MutedOwners(db, c, owners) ==
    IF owners = {} THEN Returns(db, {}) ELSE Returns(db, mutedOwners(db.ucs, c, owners))

GetConversation(db, c) == One(db, getConversation(db.convs, c))

SetUserConversationOpt(db, o, c, opt, pinned) ==
    LET st == setUserConversationOpt(db.ucs, o, c, opt, pinned)
    IN  IF st.err = Nil /\ st.n = 0 THEN Fails(db, "not_found") ELSE Exec(db, "ucs", st, {})

CreateUserConversations(db, rows) ==
    IF rows = <<>> THEN Returns(db, {})
    ELSE Exec(db, "ucs", createUserConversations(db.ucs,
                             [k \in DOMAIN rows |-> [rows[k] EXCEPT !.created = rows[k].updated]]), {})

\* message.go ---------------------------------------------------------------
GetMessageByClientId(db, c, sender, client) ==
    One(db, getMessageByClientId(db.msgs, c, sender, client))

InsertMessage(db, c, seq, row) ==
    LET st == insertMessage(db.msgs, c, seq, row) IN Exec(db, "msgs", st, {st.n > 0})

SetConversationMaxSeq(db, c, max, now) ==
    Exec(db, "convs", setConversationMaxSeq(db.convs, c, max, now), {})

ListMessages(db, c, begin, end, n) == Returns(db, {listMessages(db.msgs, c, begin, end, n)})

GetMessages(db, keys) ==
    IF keys = <<>> THEN Returns(db, {}) ELSE Returns(db, getMessages(db.msgs, keys))

TouchUserConversation(db, o, c, peer, read, now) ==
    Exec(db, "ucs", touchUserConversation(db.ucs, o, c, peer, read, now), {})

TouchConversationMembers(db, c, now) ==
    Exec(db, "ucs", touchConversationMembers(db.ucs, c, now), {})

AdvanceReadSeq(db, o, c, read) == Exec(db, "ucs", advanceReadSeq(db.ucs, o, c, read), {})

ListUserConversations(db, o, cursor, n) ==
    Returns(db, {listUserConversations(db.ucs, db.convs, o, cursor, n)})

\* online.go ----------------------------------------------------------------
UpsertOnlineConn(db, conn, row) == Exec(db, "online", upsertOnlineConn(db.online, conn, row), {})

DeleteOnlineConn(db, conn) == Exec(db, "online", deleteOnlineConn(db.online, conn), {})

RenewOnlineConns(db, node, conns, now) ==
    IF conns = {} THEN Returns(db, {})
    ELSE Exec(db, "online", renewOnlineConns(db.online, node, conns, now), {})

ListOnlineConns(db, users, since) ==
    IF users = {} THEN Returns(db, {}) ELSE Returns(db, listOnlineConns(db.online, users, since))

DeleteOnlineConnsByNode(db, node) ==
    Exec(db, "online", deleteOnlineConnsByNode(db.online, node), {})
=============================================================================
