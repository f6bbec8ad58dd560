------------------------------ MODULE MemStore -------------------------------
(***************************************************************************)
(* internal/store/storetest: Mem, the in-memory Store the service suites   *)
(* run against.  Every method holds its mutex throughout, so each is one   *)
(* step on the maps.  WithTx only serializes: nothing is ever rolled back. *)
(***************************************************************************)
EXTENDS Rows, SequencesExt

Put(db, name, k, row) == Returns([db EXCEPT ![name] = WithRow(@, k, row)], {})

Missing(db) == Fails(db, "not_found")

Lookup(db, name, k) == IF k \in DOMAIN db[name] THEN Returns(db, {db[name][k]}) ELSE Missing(db)

\* mem.go -------------------------------------------------------------------
GetUser(db, id) == Lookup(db, "users", id)

GetUsers(db, ids) == Returns(db, {<<id, db.users[id]>> : id \in {i \in ids : i \in DOMAIN db.users}})

GetUserByUsername(db, username) ==
    LET found == {id \in DOMAIN db.users : db.users[id].username = username}
    IN  IF found = {} THEN Missing(db) ELSE Returns(db, {<<id, db.users[id]>> : id \in found})

CreateUser(db, id, row) ==
    IF id \in DOMAIN db.users THEN Fails(db, "duplicate") ELSE Put(db, "users", id, row)

UpdateUserProfile(db, id, nickname, avatar, now) ==
    IF id \notin DOMAIN db.users THEN Missing(db)
    ELSE Put(db, "users", id,
             [db.users[id] EXCEPT !.nickname = Coalesce(nickname, @), !.avatar = Coalesce(avatar, @),
                                  !.updated = now])

UpsertUser(db, id, nickname, avatar, now) ==
    LET cur == IF id \in DOMAIN db.users THEN db.users[id]
               ELSE [username |-> 0, nickname |-> 0, avatar |-> 0, created |-> now, updated |-> now]
    IN  Put(db, "users", id, [cur EXCEPT !.nickname = nickname, !.avatar = avatar, !.updated = now])

\* mem_group.go -------------------------------------------------------------
CreateGroup(db, g, row, members) ==
    IF g \in DOMAIN db.groups THEN Fails(db, "duplicate")
    ELSE Returns([db EXCEPT !.groups = WithRow(@, g, row), !.members = With(@, members)], {})

GetGroup(db, g) == Lookup(db, "groups", g)

AddGroupMember(db, g, u, row) ==
    IF <<g, u>> \in DOMAIN db.members THEN Fails(db, "duplicate") ELSE Put(db, "members", <<g, u>>, row)

RemoveGroupMember(db, g, u) ==
    Returns([db EXCEPT !.members = Delete(@, {<<g, u>>}).tab], {(<<g, u>> \in DOMAIN db.members)})

GetGroupMember(db, g, u) == Lookup(db, "members", <<g, u>>)

\* sortedMembers: by joining time, then by user.
sortedMembers(db, of) ==
    LET Sooner(a, b) == Precedes(<<db.members[a].joined, a[2]>>, <<db.members[b].joined, b[2]>>)
    IN  SetToSortSeq(of, Sooner)

ListGroupMembers(db, g) ==
    LET keys == sortedMembers(db, {k \in DOMAIN db.members : k[1] = g})
    IN  Returns(db, {[i \in DOMAIN keys |-> <<keys[i][2], db.members[keys[i]]>>]})

CountGroupMembers(db, g) == Returns(db, {Cardinality({k \in DOMAIN db.members : k[1] = g})})

ListUserGroupIds(db, u) ==
    Returns(db, {<<db.members[k].joined, k[1]>> :
                    k \in Elements(sortedMembers(db, {m \in DOMAIN db.members : m[2] = u}))})

LockConversation(db, c, now) ==
    LET row == [max |-> 0, created |-> now, updated |-> now]
        kept == IF c \in DOMAIN db.convs THEN db ELSE Put(db, "convs", c, row).db
    IN  Returns(kept, {kept.convs[c]})

GetUserConversation(db, o, c) == Lookup(db, "ucs", <<o, c>>)

GetUserConversationRow(db, o, c) ==
    IF <<o, c>> \notin DOMAIN db.ucs \/ c \notin DOMAIN db.convs THEN Missing(db)
    ELSE Returns(db, {[uc |-> db.ucs[<<o, c>>], convMax |-> db.convs[c].max]})

UpsertUserConversation(db, o, c, row) ==
    LET k == <<o, c>>
        cur == IF k \in DOMAIN db.ucs THEN db.ucs[k] ELSE [row EXCEPT !.created = row.updated]
    IN  Put(db, "ucs", k, [cur EXCEPT !.min = row.min, !.max = row.max, !.read = row.read,
                                      !.updated = row.updated])

DeleteUserConversation(db, o, c) == Returns([db EXCEPT !.ucs = Delete(@, {<<o, c>>}).tab], {})

VisibleOwners(db, c, owners, seq) ==
    Returns(db, {o \in owners : /\ <<o, c>> \in DOMAIN db.ucs
                                /\ db.ucs[<<o, c>>].min <= seq
                                /\ db.ucs[<<o, c>>].max = 0 \/ seq <= db.ucs[<<o, c>>].max})

MutedOwners(db, c, owners) ==
    Returns(db, {o \in owners : <<o, c>> \in DOMAIN db.ucs /\ db.ucs[<<o, c>>].opt # 0})

SetUserConversationMaxSeq(db, o, c, max) ==
    IF <<o, c>> \notin DOMAIN db.ucs THEN Returns(db, {})
    ELSE Put(db, "ucs", <<o, c>>, [db.ucs[<<o, c>>] EXCEPT !.max = max])

GetConversation(db, c) == Lookup(db, "convs", c)

SetUserConversationOpt(db, o, c, opt, pinned) ==
    IF <<o, c>> \notin DOMAIN db.ucs THEN Missing(db)
    ELSE Put(db, "ucs", <<o, c>>, [db.ucs[<<o, c>>] EXCEPT !.opt = Coalesce(opt, @),
                                                           !.pinned = Coalesce(pinned, @)])

CreateUserConversations(db, rows) ==
    IF DOMAIN rows \cap DOMAIN db.ucs # {} THEN Fails(db, "duplicate")
    ELSE Returns([db EXCEPT !.ucs = With(@, [k \in DOMAIN rows |->
                                                [rows[k] EXCEPT !.created = rows[k].updated]])], {})

\* mem_message.go -----------------------------------------------------------
GetMessageByClientId(db, c, sender, client) ==
    LET found == {k \in DOMAIN db.msgs :
                    k[1] = c /\ db.msgs[k].sender = sender /\ db.msgs[k].client = client}
    IN  IF found = {} THEN Missing(db) ELSE Returns(db, {db.msgs[k] : k \in found})

InsertMessage(db, c, seq, row) ==
    LET duplicate(k) == \/ db.msgs[k].server = row.server
                        \/ /\ k[1] = c
                           /\ \/ k[2] = seq
                              \/ db.msgs[k].sender = row.sender /\ db.msgs[k].client = row.client
    IN  IF \E k \in DOMAIN db.msgs : duplicate(k) THEN Returns(db, {FALSE})
        ELSE Returns([db EXCEPT !.msgs = WithRow(@, <<c, seq>>, row)], {TRUE})

\* A missing conversation is read as its zero value, and stored.
SetConversationMaxSeq(db, c, max, now) ==
    LET cur == IF c \in DOMAIN db.convs THEN db.convs[c] ELSE [max |-> 0, created |-> 0, updated |-> 0]
    IN  Put(db, "convs", c, [cur EXCEPT !.max = max, !.updated = now])

ListMessages(db, c, begin, end, n) ==
    LET found == {<<k[2], db.msgs[k]>> : k \in {m \in DOMAIN db.msgs :
                                                  m[1] = c /\ m[2] >= begin /\ m[2] <= end}}
        Earlier(a, b) == a[1] - b[1] < 0
    IN  Returns(db, {Limit(SetToSortSeq(found, Earlier), n)})

GetMessages(db, keys) ==
    Returns(db, {<<k, db.msgs[k]>> : k \in {m \in DOMAIN db.msgs : Contains(keys, m)}})

TouchUserConversation(db, o, c, peer, read, now) ==
    LET k == <<o, c>>
        cur == IF k \in DOMAIN db.ucs THEN db.ucs[k]
               ELSE [peer |-> peer, min |-> 1, max |-> 0, read |-> 0, opt |-> 0, pinned |-> FALSE,
                     updated |-> now, created |-> now]
    IN  Put(db, "ucs", k, [cur EXCEPT !.updated = IF @ > now THEN @ ELSE now, !.read = Larger(@, read)])

TouchConversationMembers(db, c, now) ==
    LET stale == {k \in DOMAIN db.ucs : k[2] = c /\ db.ucs[k].max = 0 /\ now > db.ucs[k].updated}
    IN  Returns([db EXCEPT !.ucs = [k \in DOMAIN @ |-> IF k \in stale THEN [@[k] EXCEPT !.updated = now]
                                                       ELSE @[k]]], {})

AdvanceReadSeq(db, o, c, read) ==
    IF <<o, c>> \notin DOMAIN db.ucs THEN Returns(db, {})
    ELSE Put(db, "ucs", <<o, c>>, [db.ucs[<<o, c>>] EXCEPT !.read = Larger(@, read)])

\* No join: the maximum of a missing conversation reads as zero.
ListUserConversations(db, o, cursor, n) ==
    LET of == {k \in DOMAIN db.ucs : k[1] = o /\ Precedes(<<db.ucs[k].updated, k[2]>>, cursor)}
        convMax(c) == IF c \in DOMAIN db.convs THEN db.convs[c].max ELSE 0
        rows == {[id |-> k[2], uc |-> db.ucs[k], convMax |-> convMax(k[2])] : k \in of}
        After(x, y) == Precedes(<<y.uc.updated, y.id>>, <<x.uc.updated, x.id>>)
    IN  Returns(db, {Limit(SetToSortSeq(rows, After), n)})

\* mem_online.go ------------------------------------------------------------
UpsertOnlineConn(db, conn, row) == Put(db, "online", conn, row)

DeleteOnlineConn(db, conn) == Returns([db EXCEPT !.online = Delete(@, {conn}).tab], {})

RenewOnlineConns(db, node, conns, now) ==
    Returns([db EXCEPT !.online = [k \in DOMAIN @ |->
        IF @[k].node = node /\ k \in conns THEN [@[k] EXCEPT !.beat = now] ELSE @[k]]], {})

ListOnlineConns(db, users, since) ==
    Returns(db, {<<k, db.online[k]>> : k \in {m \in DOMAIN db.online :
                    db.online[m].user \in users /\ db.online[m].beat > since}})

DeleteOnlineConnsByNode(db, node) ==
    Returns([db EXCEPT !.online = Delete(@, {k \in DOMAIN @ : @[k].node = node}).tab], {})
=============================================================================
