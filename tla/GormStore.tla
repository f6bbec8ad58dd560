------------------------------ MODULE GormStore ------------------------------
(***************************************************************************)
(* internal/store/gormstore: the Store over GORM, on MySQL or PostgreSQL.  *)
(* The two differ in the number of rows a statement reports, by which      *)
(* several methods decide: PostgreSQL counts the rows an UPDATE matched,   *)
(* MySQL the rows it changed, unless the connection sets clientFoundRows.  *)
(***************************************************************************)
EXTENDS Rows, SequencesExt

CONSTANTS driver,           \* "postgres" or "mysql"
          dsn,              \* the flags of a MySQL connection
          getMessagesChunk  \* keys in one IN list (500)

\* store.go -----------------------------------------------------------------
checkMysqlDsn(d) == ~d.clientFoundRows /\ d.parseTime

New == driver = "mysql" => checkMysqlDsn(dsn)

wrap(e) == CASE e = "record_not_found" -> "not_found"
             [] e = "unique_violation" -> "duplicate"
             [] OTHER -> e

\* First and Take: the row, or ErrRecordNotFound.
First(db, rows) == IF rows = {} THEN Fails(db, wrap("record_not_found")) ELSE Returns(db, rows)

Exec(db, name, st, val) ==
    IF st.err # Nil THEN Fails(db, wrap(st.err)) ELSE Returns([db EXCEPT ![name] = st.tab], val)

Update(t, new) ==
    IF driver = "mysql" /\ ~dsn.clientFoundRows THEN Changed(t, new) ELSE Matched(t, new)

\* clause.OnConflict with DoUpdates: a conflicting row gets the value "update".
OnConflict(t, k, row, update) ==
    IF k \in DOMAIN t THEN Update(t, [x \in {k} |-> update]) ELSE Insert(t, k, row)

\* clause.OnConflict with DoNothing: ON CONFLICT DO NOTHING on PostgreSQL, a
\* self-assignment on MySQL, which matches one row and changes none.
DoNothing(t, conflicts, k, row) ==
    IF conflicts = {} THEN Insert(t, k, row)
    ELSE Done(t, IF driver = "mysql" /\ dsn.clientFoundRows THEN 1 ELSE 0)

GetUser(db, id) == First(db, At(db.users, id))

GetUsers(db, ids) == Returns(db, {<<id, db.users[id]>> : id \in ids \cap DOMAIN db.users})

\* First orders by the primary key.
GetUserByUsername(db, username) ==
    LET ids == {id \in DOMAIN db.users : db.users[id].username = username}
    IN  First(db, {<<id, db.users[id]>> : id \in {i \in ids : \A j \in ids : i <= j}})

CreateUser(db, id, row) == Exec(db, "users", Insert(db.users, id, row), {})

\* No row counted: the row may be missing, or hold these values already.
UpdateUserProfile(db, id, nickname, avatar, now) ==
    LET st == Update(db.users, [i \in DOMAIN db.users \cap {id} |->
                 [db.users[i] EXCEPT !.updated = now, !.nickname = Coalesce(nickname, @),
                                     !.avatar = Coalesce(avatar, @)]])
    IN  IF st.err = Nil /\ st.n = 0 /\ GetUser(db, id).err # Nil
        THEN Fails(db, GetUser(db, id).err)
        ELSE Exec(db, "users", st, {})

UpsertUser(db, id, nickname, avatar, now) ==
    LET row == [username |-> 0, nickname |-> nickname, avatar |-> avatar,
                created |-> now, updated |-> now]
        update(old) == [old EXCEPT !.nickname = nickname, !.avatar = avatar, !.updated = now]
    IN  Exec(db, "users", OnConflict(db.users, id, row, update(db.users[id])), {})

\* group.go -----------------------------------------------------------------
\* GORM runs the batches of CreateInBatches in one transaction: all rows or none.
CreateInBatches(t, rows) == InsertAll(t, rows)

CreateGroup(db, g, row, members) ==
    LET created == Exec(db, "groups", Insert(db.groups, g, row), {})
    IN  IF created.err # Nil \/ members = <<>> THEN created
        ELSE Exec(created.db, "members", CreateInBatches(db.members, members), {})

GetGroup(db, g) == First(db, At(db.groups, g))

AddGroupMember(db, g, u, row) == Exec(db, "members", Insert(db.members, <<g, u>>, row), {})

RemoveGroupMember(db, g, u) ==
    LET st == Delete(db.members, {<<g, u>>}) IN Exec(db, "members", st, {st.n > 0})

GetGroupMember(db, g, u) == First(db, At(db.members, <<g, u>>))

ListGroupMembers(db, g) ==
    LET of == {k \in DOMAIN db.members : k[1] = g}
        sorted == Ascending({<<db.members[k].joined, k[2]>> : k \in of})
    IN  Returns(db, {[i \in DOMAIN sorted |-> <<sorted[i][2], db.members[<<g, sorted[i][2]>>]>>]})

CountGroupMembers(db, g) == Returns(db, {Cardinality({k \in DOMAIN db.members : k[1] = g})})

\* Ordered by joined_at alone: the ids are given per joining time.
ListUserGroupIds(db, u) ==
    Returns(db, {<<db.members[k].joined, k[1]>> : k \in {m \in DOMAIN db.members : m[2] = u}})

LockConversation(db, c, now) ==
    LET row == [max |-> 0, created |-> now, updated |-> now]
        made == Exec(db, "convs", DoNothing(db.convs, DOMAIN db.convs \cap {c}, c, row), {})
    IN  IF made.err # Nil THEN made ELSE First(made.db, At(made.db.convs, c))

GetUserConversation(db, o, c) == First(db, At(db.ucs, <<o, c>>))

\* userConversationRows: the owner's rows joined with their conversations.
userConversationRows(db, o) ==
    {[id |-> k[2], uc |-> db.ucs[k], convMax |-> db.convs[k[2]].max] :
        k \in {m \in DOMAIN db.ucs : m[1] = o /\ m[2] \in DOMAIN db.convs}}

GetUserConversationRow(db, o, c) ==
    First(db, {[uc |-> r.uc, convMax |-> r.convMax] :
                  r \in {x \in userConversationRows(db, o) : x.id = c}})

UpsertUserConversation(db, o, c, row) ==
    LET update(old) == [old EXCEPT !.min = row.min, !.max = row.max, !.read = row.read,
                                   !.updated = row.updated]
    IN  Exec(db, "ucs", OnConflict(db.ucs, <<o, c>>, [row EXCEPT !.created = row.updated],
                                   update(db.ucs[<<o, c>>])), {})

SetUserConversationMaxSeq(db, o, c, max) ==
    Exec(db, "ucs", Update(db.ucs, [k \in DOMAIN db.ucs \cap {<<o, c>>} |->
                                       [db.ucs[k] EXCEPT !.max = max]]), {})

DeleteUserConversation(db, o, c) == Exec(db, "ucs", Delete(db.ucs, {<<o, c>>}), {})

VisibleOwners(db, c, owners, seq) ==
    IF owners = {} THEN Returns(db, {})
    ELSE Returns(db, {o \in owners : \E u \in At(db.ucs, <<o, c>>) :
                                        u.min <= seq /\ (u.max = 0 \/ u.max >= seq)})

MutedOwners(db, c, owners) ==
    IF owners = {} THEN Returns(db, {})
    ELSE Returns(db, {o \in owners : \E u \in At(db.ucs, <<o, c>>) : u.opt # 0})

GetConversation(db, c) == First(db, At(db.convs, c))

SetUserConversationOpt(db, o, c, opt, pinned) ==
    LET missing == GetUserConversation(db, o, c).err
        st == Update(db.ucs, [k \in DOMAIN db.ucs \cap {<<o, c>>} |->
                 [db.ucs[k] EXCEPT !.opt = Coalesce(opt, @), !.pinned = Coalesce(pinned, @)]])
    IN  CASE opt = {} /\ pinned = {} -> [Returns(db, {}) EXCEPT !.err = missing]
          [] st.err = Nil /\ st.n = 0 /\ missing # Nil -> Fails(db, missing)
          [] OTHER -> Exec(db, "ucs", st, {})

CreateUserConversations(db, rows) ==
    IF rows = <<>> THEN Returns(db, {})
    ELSE Exec(db, "ucs", CreateInBatches(db.ucs,
                 [k \in DOMAIN rows |-> [rows[k] EXCEPT !.created = rows[k].updated]]), {})

\* message.go ---------------------------------------------------------------
GetMessageByClientId(db, c, sender, client) ==
    First(db, {db.msgs[k] : k \in {m \in DOMAIN db.msgs :
                  m[1] = c /\ db.msgs[m].sender = sender /\ db.msgs[m].client = client}})

\* RowsAffected is all that tells a duplicate from a new message.
InsertMessage(db, c, seq, row) ==
    LET conflicts == {k \in DOMAIN db.msgs :
            \/ k = <<c, seq>>
            \/ db.msgs[k].server = row.server
            \/ k[1] = c /\ db.msgs[k].sender = row.sender /\ db.msgs[k].client = row.client}
        st == DoNothing(db.msgs, conflicts, <<c, seq>>, row)
    IN  Exec(db, "msgs", st, {st.n > 0})

SetConversationMaxSeq(db, c, max, now) ==
    Exec(db, "convs", Update(db.convs, [k \in DOMAIN db.convs \cap {c} |->
                         [db.convs[k] EXCEPT !.max = max, !.updated = now]]), {})

ListMessages(db, c, begin, end, n) ==
    LET of == {k \in DOMAIN db.msgs : k[1] = c /\ k[2] >= begin /\ k[2] <= end}
        sorted == SetToSortSeq({k[2] : k \in of}, <)
    IN  Returns(db, {Limit([i \in DOMAIN sorted |-> <<sorted[i], db.msgs[<<c, sorted[i]>>]>>], n)})

\* Mutant: a last chunk that is not full is dropped.
GetMessagesFullChunks(db, keys) ==
    LET full == (Len(keys) \div getMessagesChunk) * getMessagesChunk
    IN  Returns(db, {<<k, db.msgs[k]>> : k \in DOMAIN db.msgs \cap Elements(SubSeq(keys, 1, full))})

\* One query per chunk of the keys.
GetMessages(db, keys) ==
    LET chunks == 1..((Len(keys) + getMessagesChunk - 1) \div getMessagesChunk)
        chunk(i) == SubSeq(keys, (i - 1) * getMessagesChunk + 1,
                           IF i * getMessagesChunk < Len(keys) THEN i * getMessagesChunk ELSE Len(keys))
    IN  Returns(db, UNION {{<<k, db.msgs[k]>> : k \in DOMAIN db.msgs \cap Elements(chunk(i))} : i \in chunks})

TouchUserConversation(db, o, c, peer, read, now) ==
    LET row == [peer |-> peer, min |-> 1, max |-> 0, read |-> read, opt |-> 0, pinned |-> FALSE,
                updated |-> now, created |-> now]
        update(old) == [old EXCEPT !.updated = Larger(@, now), !.read = Larger(@, read)]
    IN  Exec(db, "ucs", OnConflict(db.ucs, <<o, c>>, row, update(db.ucs[<<o, c>>])), {})

TouchConversationMembers(db, c, now) ==
    Exec(db, "ucs", Update(db.ucs, [k \in {m \in DOMAIN db.ucs : m[2] = c /\ db.ucs[m].max = 0} |->
                                       [db.ucs[k] EXCEPT !.updated = Larger(@, now)]]), {})

AdvanceReadSeq(db, o, c, read) ==
    Exec(db, "ucs", Update(db.ucs, [k \in DOMAIN db.ucs \cap {<<o, c>>} |->
                                       [db.ucs[k] EXCEPT !.read = Larger(@, read)]]), {})

ListUserConversations(db, o, cursor, n) ==
    LET rows == {r \in userConversationRows(db, o) : Precedes(<<r.uc.updated, r.id>>, cursor)}
        After(x, y) == Precedes(<<y.uc.updated, y.id>>, <<x.uc.updated, x.id>>)
    IN  Returns(db, {Limit(SetToSortSeq(rows, After), n)})

\* online.go ----------------------------------------------------------------
UpsertOnlineConn(db, conn, row) == Exec(db, "online", OnConflict(db.online, conn, row, row), {})

DeleteOnlineConn(db, conn) == Exec(db, "online", Delete(db.online, {conn}), {})

RenewOnlineConns(db, node, conns, now) ==
    IF conns = {} THEN Returns(db, {})
    ELSE Exec(db, "online",
              Update(db.online, [k \in {m \in DOMAIN db.online \cap conns : db.online[m].node = node} |->
                                    [db.online[k] EXCEPT !.beat = now]]), {})

ListOnlineConns(db, users, since) ==
    IF users = {} THEN Returns(db, {})
    ELSE Returns(db, {<<k, db.online[k]>> : k \in {m \in DOMAIN db.online :
                         db.online[m].user \in users /\ db.online[m].beat > since}})

DeleteOnlineConnsByNode(db, node) ==
    Exec(db, "online", Delete(db.online, {k \in DOMAIN db.online : db.online[k].node = node}), {})
=============================================================================
