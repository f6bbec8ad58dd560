---------------------------- MODULE WebSyncTables ---------------------------
(*****************************************************************************)
(* The server's half of the proofs about WebSync: what the operations of the *)
(* store, the transaction of Send and the read services do to the tables and *)
(* answer from them, and that every step of the tables keeps the inductive   *)
(* invariant.                                                                *)
(*****************************************************************************)
EXTENDS WebSyncInv, FiniteSetTheorems, TLAPS

(* A leaf that names no prover is Zenon's; SMTT marks those with arithmetic. *)
USE ZenonT(30)

-----------------------------------------------------------------------------
(* The page order. *)

(* Precedes is a strict total order on pairs of numbers (the ORDER BY of a   *)
(* page query).                                                              *)
LEMMA PrecedesOrder ==
  ASSUME NEW x \in Pairs, NEW y \in Pairs, NEW z \in Pairs
  PROVE  /\ ~Precedes(x, x)
         /\ Precedes(x, y) /\ Precedes(y, z) => Precedes(x, z)
         /\ x = y \/ Precedes(x, y) \/ Precedes(y, x)
  <1>1. x = <<x[1], x[2]>> /\ y = <<y[1], y[2]>> BY SMTT(30) DEF Pairs
  <1>2. x[1] \in Nat /\ x[2] \in Nat /\ y[1] \in Nat /\ y[2] \in Nat /\ z[1] \in Nat /\ z[2] \in Nat BY DEF Pairs
  <1> QED BY <1>1, <1>2, SMTT(30) DEF Precedes

(* The rank in a finite set grows with the order. *)
LEMMA RankGrows ==
  ASSUME NEW S \in SUBSET Pairs, IsFiniteSet(S), NEW x \in S, NEW y \in S, Precedes(x, y)
  PROVE  Rank(S, x) < Rank(S, y)
  <1> DEFINE A == {z \in S : Precedes(z, x)}
             B == {z \in S : Precedes(z, y)}
  <1>1. IsFiniteSet(B) /\ A \subseteq B /\ x \in B /\ x \notin A
    BY FS_Subset, PrecedesOrder DEF FS_Subset
  <1>2. Cardinality(A) < Cardinality(B)
    <2>1. A # B BY <1>1
    <2> HIDE DEF A, B
    <2> QED BY <1>1, <2>1, FS_Subset, FS_CardinalityType, SMTT(30) DEF FS_Subset, FS_CardinalityType
  <1> QED BY <1>2 DEF Rank

(* Ranks number a finite set from 0 without gap or repetition. *)
LEMMA RankOnto ==
  ASSUME NEW S \in SUBSET Pairs, IsFiniteSet(S)
  PROVE  /\ Cardinality(S) \in Nat
         /\ \A x \in S : Rank(S, x) \in 0 .. Cardinality(S) - 1
         /\ \A x, y \in S : Rank(S, x) = Rank(S, y) => x = y
         /\ \A i \in 0 .. Cardinality(S) - 1 : \E x \in S : Rank(S, x) = i
  <1> DEFINE n == Cardinality(S)
             T == 0 .. n - 1
             f == [x \in S |-> Rank(S, x)]
  <1>1. n \in Nat BY FS_CardinalityType
  <1>2. \A x \in S : Rank(S, x) \in T
    <2> SUFFICES ASSUME NEW x \in S PROVE Rank(S, x) \in T OBVIOUS
    <2> DEFINE A == {z \in S : Precedes(z, x)}
    <2>1. A \subseteq S /\ x \notin A BY PrecedesOrder
    <2>2. IsFiniteSet(A) /\ Cardinality(A) \in Nat /\ Cardinality(A) < n
      <3>1. A # S BY <2>1
      <3> HIDE DEF A
      <3> QED BY <2>1, <3>1, <1>1, FS_Subset, FS_CardinalityType, SMTT(30)
    <2> QED BY <2>2, <1>1, SMTT(30) DEF Rank
  <1>3. \A x, y \in S : Rank(S, x) = Rank(S, y) => x = y
    <2> SUFFICES ASSUME NEW x \in S, NEW y \in S, Rank(S, x) = Rank(S, y), x # y PROVE FALSE OBVIOUS
    <2>1. Precedes(x, y) \/ Precedes(y, x) BY PrecedesOrder
    <2>2. Rank(S, x) < Rank(S, y) \/ Rank(S, y) < Rank(S, x) BY <2>1, RankGrows
    <2> QED BY <2>2, <1>2, <1>1, SMTT(30)
  <1>4. f \in Injection(S, T) BY <1>2, <1>3 DEF Injection, IsInjective
  <1>5. IsFiniteSet(T) /\ Cardinality(T) = n BY <1>1, FS_Interval, SMTT(30)
  <1>6. f \in Surjection(S, T) BY <1>4, <1>5, FS_Injection
  <1> QED BY <1>1, <1>2, <1>3, <1>6 DEF Surjection

(* Ascending enumerates a finite set in order. *)
LEMMA AscendingOrder ==
  ASSUME NEW S \in SUBSET Pairs, IsFiniteSet(S)
  PROVE  /\ Cardinality(S) \in Nat
         /\ Ascending(S) \in [1 .. Cardinality(S) -> S]
         /\ \A i, j \in 1 .. Cardinality(S) : i < j => Precedes(Ascending(S)[i], Ascending(S)[j])
         /\ \A x \in S : \E i \in 1 .. Cardinality(S) : Ascending(S)[i] = x
  <1> DEFINE n == Cardinality(S)
             s == Ascending(S)
  <1>1. n \in Nat BY RankOnto
  <1>2. \A i \in 1 .. n : s[i] \in S /\ Rank(S, s[i]) = i - 1
    <2> SUFFICES ASSUME NEW i \in 1 .. n PROVE s[i] \in S /\ Rank(S, s[i]) = i - 1 OBVIOUS
    <2>1. i - 1 \in 0 .. n - 1 BY <1>1, SMTT(30)
    <2>2. \E x \in S : Rank(S, x) = i - 1 BY <2>1, RankOnto
    <2>3. s[i] = CHOOSE x \in S : Rank(S, x) = i - 1 BY DEF Ascending
    <2> QED BY <2>2, <2>3
  <1>3. s \in [1 .. n -> S] BY <1>2 DEF Ascending
  <1>4. \A i, j \in 1 .. n : i < j => Precedes(s[i], s[j])
    <2> SUFFICES ASSUME NEW i \in 1 .. n, NEW j \in 1 .. n, i < j PROVE Precedes(s[i], s[j]) OBVIOUS
    <2>0. s[i] \in S /\ s[j] \in S /\ Rank(S, s[i]) = i - 1 /\ Rank(S, s[j]) = j - 1 BY <1>2
    <2>1. s[i] # s[j]
      <3> HIDE DEF s
      <3> QED BY <2>0, <1>1, SMTT(30)
    <2>2. Precedes(s[j], s[i]) => FALSE
      <3> SUFFICES ASSUME Precedes(s[j], s[i]) PROVE FALSE OBVIOUS
      <3>1. Rank(S, s[j]) < Rank(S, s[i]) BY <2>0, RankGrows
      <3> HIDE DEF s
      <3> QED BY <2>0, <3>1, <1>1, SMTT(30)
    <2> QED BY <2>0, <2>1, <2>2, PrecedesOrder
  <1>5. \A x \in S : \E i \in 1 .. n : s[i] = x
    <2> SUFFICES ASSUME NEW x \in S PROVE \E i \in 1 .. n : s[i] = x OBVIOUS
    <2>1. Rank(S, x) \in 0 .. n - 1 BY RankOnto
    <2>2. PICK k \in 1 .. n : k - 1 = Rank(S, x) BY <2>1, <1>1, SMTT(30)
    <2>3. s[k] \in S /\ Rank(S, s[k]) = Rank(S, x) BY <2>2, <1>2
    <2>4. \A y, z \in S : Rank(S, y) = Rank(S, z) => y = z BY RankOnto
    <2>5. s[k] = x BY <2>3, <2>4
    <2> QED BY <2>2, <2>5
  <1> QED BY <1>1, <1>3, <1>4, <1>5

(* ListUserConversations over the store's tables, in this module's           *)
(* operators.                                                                *)
LEMMA Bridge ==
  ASSUME NEW ucs, NEW convs, NEW o, NEW cursor, NEW n
  PROVE  listUserConversations(ucs, convs, o, cursor, n) =
           LET of == {k \in DOMAIN ucs : k[1] = o /\ k[2] \in DOMAIN convs}
               sorted == Descending({s \in {<<ucs[k].updated, k[2]>> : k \in of} : Precedes(s, cursor)})
           IN  Limit([i \in DOMAIN sorted |->
                 LET c == sorted[i][2]
                 IN  [id |-> c, uc |-> ucs[<<o, c>>], convMax |-> convs[c].max]], n)
  BY DEF listUserConversations

SetMsgs(d, t) == [d EXCEPT !["msgs"] = t]
SetMembers(d, t) == [d EXCEPT !["members"] = t]
SetConvs(d, t) == [d EXCEPT !["convs"] = t]
SetUcs(d, t) == [d EXCEPT !["ucs"] = t]

-----------------------------------------------------------------------------
(* The operations on the tables. *)

(* Replacing the messages table leaves the others. *)
LEMMA SetMsgsLemma ==
  ASSUME NEW d, DbType(d), NEW t, MsgsType(t)
  PROVE  /\ DbType(SetMsgs(d, t))
         /\ SetMsgs(d, t).msgs = t
         /\ SetMsgs(d, t).members = d.members
         /\ SetMsgs(d, t).convs = d.convs
         /\ SetMsgs(d, t).ucs = d.ucs
  <1>1. d = [users |-> d.users, groups |-> d.groups, online |-> d.online, msgs |-> d.msgs,
             members |-> d.members, convs |-> d.convs, ucs |-> d.ucs]
    BY DEF DbType, IsDb
  <1>2. SetMsgs(d, t) = [d EXCEPT !.msgs = t] BY SMTT(30) DEF SetMsgs
  <1>3. IsDb(SetMsgs(d, t)) /\ SetMsgs(d, t).msgs = t /\ SetMsgs(d, t).members = d.members /\ SetMsgs(d, t).convs = d.convs /\ SetMsgs(d, t).ucs = d.ucs
    BY <1>1, <1>2, SMTT(30) DEF IsDb
  <1> QED BY <1>3 DEF DbType

(* Replacing the members table leaves the others. *)
LEMMA SetMembersLemma ==
  ASSUME NEW d, DbType(d), NEW t
  PROVE  /\ DbType(SetMembers(d, t))
         /\ SetMembers(d, t).msgs = d.msgs
         /\ SetMembers(d, t).members = t
         /\ SetMembers(d, t).convs = d.convs
         /\ SetMembers(d, t).ucs = d.ucs
  <1>1. d = [users |-> d.users, groups |-> d.groups, online |-> d.online, msgs |-> d.msgs,
             members |-> d.members, convs |-> d.convs, ucs |-> d.ucs]
    BY DEF DbType, IsDb
  <1>2. SetMembers(d, t) = [d EXCEPT !.members = t] BY SMTT(30) DEF SetMembers
  <1>3. IsDb(SetMembers(d, t)) /\ SetMembers(d, t).msgs = d.msgs /\ SetMembers(d, t).members = t /\ SetMembers(d, t).convs = d.convs /\ SetMembers(d, t).ucs = d.ucs
    BY <1>1, <1>2, SMTT(30) DEF IsDb
  <1> QED BY <1>3 DEF DbType

(* Replacing the conversations table leaves the others. *)
LEMMA SetConvsLemma ==
  ASSUME NEW d, DbType(d), NEW t, ConvsType(t)
  PROVE  /\ DbType(SetConvs(d, t))
         /\ SetConvs(d, t).msgs = d.msgs
         /\ SetConvs(d, t).members = d.members
         /\ SetConvs(d, t).convs = t
         /\ SetConvs(d, t).ucs = d.ucs
  <1>1. d = [users |-> d.users, groups |-> d.groups, online |-> d.online, msgs |-> d.msgs,
             members |-> d.members, convs |-> d.convs, ucs |-> d.ucs]
    BY DEF DbType, IsDb
  <1>2. SetConvs(d, t) = [d EXCEPT !.convs = t] BY SMTT(30) DEF SetConvs
  <1>3. IsDb(SetConvs(d, t)) /\ SetConvs(d, t).msgs = d.msgs /\ SetConvs(d, t).members = d.members /\ SetConvs(d, t).convs = t /\ SetConvs(d, t).ucs = d.ucs
    BY <1>1, <1>2, SMTT(30) DEF IsDb
  <1> QED BY <1>3 DEF DbType

(* Replacing the user_conversations table leaves the others. *)
LEMMA SetUcsLemma ==
  ASSUME NEW d, DbType(d), NEW t, UcsType(t)
  PROVE  /\ DbType(SetUcs(d, t))
         /\ SetUcs(d, t).msgs = d.msgs
         /\ SetUcs(d, t).members = d.members
         /\ SetUcs(d, t).convs = d.convs
         /\ SetUcs(d, t).ucs = t
  <1>1. d = [users |-> d.users, groups |-> d.groups, online |-> d.online, msgs |-> d.msgs,
             members |-> d.members, convs |-> d.convs, ucs |-> d.ucs]
    BY DEF DbType, IsDb
  <1>2. SetUcs(d, t) = [d EXCEPT !.ucs = t] BY SMTT(30) DEF SetUcs
  <1>3. IsDb(SetUcs(d, t)) /\ SetUcs(d, t).msgs = d.msgs /\ SetUcs(d, t).members = d.members /\ SetUcs(d, t).convs = d.convs /\ SetUcs(d, t).ucs = t
    BY <1>1, <1>2, SMTT(30) DEF IsDb
  <1> QED BY <1>3 DEF DbType

(* A user_conversations row with one number replaced is such a row. *)
LEMMA UcExcept ==
  ASSUME NEW u \in UcRow, NEW n \in Nat
  PROVE  /\ [u EXCEPT !.updated = n] \in UcRow
         /\ [u EXCEPT !.read = n] \in UcRow
         /\ [u EXCEPT !.max = n] \in UcRow
         /\ [u EXCEPT !.min = n] \in UcRow
         /\ u.updated \in Nat /\ u.read \in Nat /\ u.min \in Nat /\ u.max \in Nat
  BY SMTT(30) DEF UcRow

(* ... and its other fields are as they were. *)
LEMMA UcExceptFields ==
  ASSUME NEW u \in UcRow, NEW n \in Nat
  PROVE  /\ [u EXCEPT !.updated = n].updated = n
         /\ [u EXCEPT !.updated = n].min = u.min
         /\ [u EXCEPT !.updated = n].max = u.max
         /\ [u EXCEPT !.read = n].updated = u.updated
         /\ [u EXCEPT !.read = n].min = u.min
         /\ [u EXCEPT !.read = n].max = u.max
         /\ [u EXCEPT !.max = n].updated = u.updated
         /\ [u EXCEPT !.max = n].min = u.min
         /\ [u EXCEPT !.max = n].max = n
         /\ [u EXCEPT !.min = n].min = n
  BY SMTT(30) DEF UcRow

(* A conversations row with a new maximum and time is such a row. *)
LEMMA ConvExcept ==
  ASSUME NEW v \in ConvRow, NEW m \in Nat, NEW n \in Nat
  PROVE  [v EXCEPT !.max = m, !.updated = n] \in ConvRow
  <1>1. [v EXCEPT !.max = m] \in ConvRow BY SMTT(30) DEF ConvRow
  <1>2. \A w \in ConvRow : [w EXCEPT !.updated = n] \in ConvRow BY SMTT(30) DEF ConvRow
  <1> QED BY <1>1, <1>2

(* Larger of two numbers is a number. *)
LEMMA LargerType == ASSUME NEW a \in Nat, NEW b \in Nat PROVE Larger(a, b) \in Nat
  BY DEF Larger

(* InsertMessage adds at most the message it is given. *)
LEMMA InsertMessageOp ==
  ASSUME NEW d, DbType(d), NEW c \in Convs, NEW seq \in Nat, NEW row
  PROVE  \/ InsertMessage(d, c, seq, row).db = d
         \/ InsertMessage(d, c, seq, row).db = SetMsgs(d, d.msgs)
         \/ InsertMessage(d, c, seq, row).db = SetMsgs(d, WithRow(d.msgs, <<c, seq>>, row))
  <1>1. PICK st : st = insertMessage(d.msgs, c, seq, row) OBVIOUS
  <1>2. st.err = Nil => st.tab = d.msgs \/ st.tab = WithRow(d.msgs, <<c, seq>>, row)
    BY <1>1 DEF insertMessage, Done, Insert, Duplicate, Nil, Nil,
                WithRow, With, WithRow, With
  <1>3. InsertMessage(d, c, seq, row).db = IF st.err # Nil THEN d ELSE SetMsgs(d, st.tab)
    BY <1>1 DEF InsertMessage, Exec, Fails, Returns, SetMsgs
  <1> QED BY <1>2, <1>3

(* SetConversationMaxSeq writes one conversation row. *)
LEMMA SetConversationMaxSeqOp ==
  ASSUME NEW d, DbType(d), NEW c \in Convs, NEW seq \in Nat, NEW now \in Nat
  PROVE  SetConversationMaxSeq(d, c, seq, now).db
           = SetConvs(d, [d.convs EXCEPT ![c] = [@ EXCEPT !.max = seq, !.updated = now]])
  <1>1. PICK st : st = setConversationMaxSeq(d.convs, c, seq, now) OBVIOUS
  <1>2. st.err = Nil
    BY <1>1 DEF setConversationMaxSeq, Done, Matched, Nil, Nil
  <1>3. st.tab = [d.convs EXCEPT ![c] = [@ EXCEPT !.max = seq, !.updated = now]]
    <2>1. st.tab = With(d.convs, [k \in DOMAIN d.convs \cap {c} |-> [d.convs[k] EXCEPT !.max = seq, !.updated = now]])
      BY <1>1 DEF setConversationMaxSeq, Done, Matched
    <2>2. d.convs \in [Convs -> ConvRow] BY DEF DbType, ConvsType
    <2> QED BY <2>1, <2>2 DEF With
  <1> QED BY <1>1, <1>2, <1>3 DEF SetConversationMaxSeq, Exec, Fails, Returns, SetConvs

(* TouchConversationMembers raises the times of the conversation's open      *)
(* rows.                                                                     *)
LEMMA TouchConversationMembersOp ==
  ASSUME NEW d, DbType(d), NEW c \in Convs, NEW now \in Nat
  PROVE  TouchConversationMembers(d, c, now).db
           = SetUcs(d, [k \in DOMAIN d.ucs |-> IF k[2] = c /\ d.ucs[k].max = 0
                                               THEN [d.ucs[k] EXCEPT !.updated = Larger(@, now)] ELSE d.ucs[k]])
  <1>1. PICK st : st = touchConversationMembers(d.ucs, c, now) OBVIOUS
  <1>2. st.err = Nil
    BY <1>1 DEF touchConversationMembers, Done, Matched, Nil, Nil
  <1>3. st.tab = [k \in DOMAIN d.ucs |-> IF k[2] = c /\ d.ucs[k].max = 0
                                               THEN [d.ucs[k] EXCEPT !.updated = Larger(@, now)] ELSE d.ucs[k]]
    <2>1. st.tab = With(d.ucs, [k \in {m \in DOMAIN d.ucs : m[2] = c /\ d.ucs[m].max = 0} |->
                                        [d.ucs[k] EXCEPT !.updated = Larger(@, now)]])
      BY <1>1 DEF touchConversationMembers, Done, Matched, Larger, Larger
    <2> QED BY <2>1 DEF With
  <1> QED BY <1>1, <1>2, <1>3 DEF TouchConversationMembers, Exec, Fails, Returns, SetUcs

(* AdvanceReadSeq raises the read seq of the user's row. *)
LEMMA AdvanceReadSeqOp ==
  ASSUME NEW d, DbType(d), NEW c \in Convs, NEW read \in Nat
  PROVE  AdvanceReadSeq(d, me, c, read).db
           = SetUcs(d, [k \in DOMAIN d.ucs |-> IF k = <<me, c>>
                                               THEN [d.ucs[k] EXCEPT !.read = Larger(@, read)] ELSE d.ucs[k]])
  <1>1. PICK st : st = advanceReadSeq(d.ucs, me, c, read) OBVIOUS
  <1>2. st.err = Nil
    BY <1>1 DEF advanceReadSeq, Done, Matched, Nil, Nil
  <1>3. st.tab = [k \in DOMAIN d.ucs |-> IF k = <<me, c>>
                                               THEN [d.ucs[k] EXCEPT !.read = Larger(@, read)] ELSE d.ucs[k]]
    <2>1. st.tab = With(d.ucs, [k \in DOMAIN d.ucs \cap {<<me, c>>} |->
                                        [d.ucs[k] EXCEPT !.read = Larger(@, read)]])
      BY <1>1 DEF advanceReadSeq, Done, Matched, Larger, Larger
    <2> QED BY <2>1 DEF With
  <1> QED BY <1>1, <1>2, <1>3 DEF AdvanceReadSeq, Exec, Fails, Returns, SetUcs

(* RemoveGroupMember takes one member out. *)
LEMMA RemoveGroupMemberOp ==
  ASSUME NEW d, DbType(d), NEW c \in Convs
  PROVE  \E t : RemoveGroupMember(d, c, me).db = SetMembers(d, t) /\ DOMAIN t = DOMAIN d.members \ {<<c, me>>}
  <1>1. PICK st : st = removeGroupMember(d.members, c, me) OBVIOUS
  <1>2. st.err = Nil /\ DOMAIN st.tab = DOMAIN d.members \ {<<c, me>>}
    BY <1>1 DEF removeGroupMember, Done, Delete, Nil, Nil
  <1> QED BY <1>1, <1>2 DEF RemoveGroupMember, Exec, Fails, Returns, SetMembers

(* AddGroupMember puts one member in. *)
LEMMA AddGroupMemberOp ==
  ASSUME NEW d, DbType(d), NEW c \in Convs, NEW row, <<c, me>> \notin DOMAIN d.members
  PROVE  \E t : AddGroupMember(d, c, me, row).db = SetMembers(d, t) /\ DOMAIN t = DOMAIN d.members \cup {<<c, me>>}
  <1>1. PICK st : st = addGroupMember(d.members, c, me, row) OBVIOUS
  <1>2. st.err = Nil /\ DOMAIN st.tab = DOMAIN d.members \cup {<<c, me>>}
    BY <1>1 DEF addGroupMember, Done, Insert, WithRow, With, Nil, Nil
  <1> QED BY <1>1, <1>2 DEF AddGroupMember, Exec, Fails, Returns, SetMembers

(* DeleteUserConversation takes the user's row out. *)
LEMMA DeleteUserConversationOp ==
  ASSUME NEW d, DbType(d), NEW c \in Convs
  PROVE  DeleteUserConversation(d, me, c).db = SetUcs(d, [k \in DOMAIN d.ucs \ {<<me, c>>} |-> d.ucs[k]])
  <1>1. PICK st : st = deleteUserConversation(d.ucs, me, c) OBVIOUS
  <1>2. st.err = Nil /\ st.tab = [k \in DOMAIN d.ucs \ {<<me, c>>} |-> d.ucs[k]]
    BY <1>1 DEF deleteUserConversation, Done, Delete, Nil, Nil
  <1> QED BY <1>1, <1>2 DEF DeleteUserConversation, Exec, Fails, Returns, SetUcs

(* SetUserConversationMaxSeq writes the user's visible maximum. *)
LEMMA SetUserConversationMaxSeqOp ==
  ASSUME NEW d, DbType(d), NEW c \in Convs, NEW max \in Nat
  PROVE  SetUserConversationMaxSeq(d, me, c, max).db
           = SetUcs(d, [k \in DOMAIN d.ucs |-> IF k = <<me, c>>
                                               THEN [d.ucs[k] EXCEPT !.max = max] ELSE d.ucs[k]])
  <1>1. PICK st : st = setUserConversationMaxSeq(d.ucs, me, c, max) OBVIOUS
  <1>2. st.err = Nil
    BY <1>1 DEF setUserConversationMaxSeq, Done, Matched, Nil, Nil
  <1>3. st.tab = [k \in DOMAIN d.ucs |-> IF k = <<me, c>> THEN [d.ucs[k] EXCEPT !.max = max] ELSE d.ucs[k]]
    <2>1. st.tab = With(d.ucs, [k \in DOMAIN d.ucs \cap {<<me, c>>} |-> [d.ucs[k] EXCEPT !.max = max]])
      BY <1>1 DEF setUserConversationMaxSeq, Done, Matched
    <2> QED BY <2>1 DEF With
  <1> QED BY <1>1, <1>2, <1>3 DEF SetUserConversationMaxSeq, Exec, Fails, Returns, SetUcs

UpsertedRow(d, c, row) ==
    IF <<me, c>> \in DOMAIN d.ucs
    THEN [d.ucs[<<me, c>>] EXCEPT !.min = row.min, !.max = row.max, !.read = row.read, !.updated = row.updated]
    ELSE [row EXCEPT !.created = row.updated]

(* UpsertUserConversation writes or creates the user's row. *)
LEMMA UpsertUserConversationOp ==
  ASSUME NEW d, DbType(d), NEW c \in Convs, NEW row
  PROVE  UpsertUserConversation(d, me, c, row).db
           = SetUcs(d, [k \in DOMAIN d.ucs \cup {<<me, c>>} |->
               IF k = <<me, c>> THEN UpsertedRow(d, c, row) ELSE d.ucs[k]])
  <1> DEFINE k0 == <<me, c>>
             new == UpsertedRow(d, c, row)
  <1>1. PICK st : st = upsertUserConversation(d.ucs, me, c, row) OBVIOUS
  <1>2. st.err = Nil /\ st.tab = WithRow(d.ucs, k0, new)
    BY <1>1 DEF upsertUserConversation, Done, Nil, Nil, UpsertedRow
  <1>3. WithRow(d.ucs, k0, new) = [k \in DOMAIN d.ucs \cup {k0} |-> IF k = k0 THEN new ELSE d.ucs[k]]
    BY DEF WithRow, With
  <1> QED BY <1>1, <1>2, <1>3 DEF UpsertUserConversation, Exec, Fails, Returns, SetUcs

(* What the transaction of Send leaves in the tables. *)
LEMMA StoredDb ==
  ASSUME DbType(db), NEW c \in Convs, NEW sender, NEW seq \in Nat, NEW now \in Nat
  PROVE  LET d == Stored(c, sender, seq, now)
         IN  /\ DbType(d)
             /\ d.members = db.members
             /\ d.convs = [db.convs EXCEPT ![c] = [@ EXCEPT !.max = seq, !.updated = now]]
             /\ DOMAIN d.ucs = DOMAIN db.ucs
             /\ \A k \in DOMAIN db.ucs :
                   /\ d.ucs[k].min = db.ucs[k].min /\ d.ucs[k].max = db.ucs[k].max
                   /\ d.ucs[k].updated = IF k[2] = c /\ db.ucs[k].max = 0
                                         THEN Larger(db.ucs[k].updated, now) ELSE db.ucs[k].updated
             /\ DOMAIN d.msgs \subseteq DOMAIN db.msgs \cup {<<c, seq>>}
  <1> DEFINE row == [server |-> <<c, seq>>, sender |-> sender, client |-> seq, time |-> now]
             sent == InsertMessage(db, c, seq, row).db
             bumped == SetConversationMaxSeq(sent, c, seq, now).db
             touched == TouchConversationMembers(bumped, c, now).db
             d == Stored(c, sender, seq, now)
  <1>1. /\ DbType(sent) /\ sent.members = db.members /\ sent.convs = db.convs /\ sent.ucs = db.ucs
        /\ DOMAIN sent.msgs \subseteq DOMAIN db.msgs \cup {<<c, seq>>}
    <2> HIDE DEF row
    <2>1. CASE sent = db BY <2>1
    <2>2. CASE sent = SetMsgs(db, db.msgs)
      <3>1. MsgsType(db.msgs) BY DEF DbType
      <3>2. DbType(SetMsgs(db, db.msgs)) /\ SetMsgs(db, db.msgs).members = db.members
            /\ SetMsgs(db, db.msgs).convs = db.convs /\ SetMsgs(db, db.msgs).ucs = db.ucs
            /\ SetMsgs(db, db.msgs).msgs = db.msgs
        BY <3>1, SetMsgsLemma
      <3> QED BY <2>2, <3>2, SMTT(30)
    <2>3. CASE sent = SetMsgs(db, WithRow(db.msgs, <<c, seq>>, row))
      <3> DEFINE t == WithRow(db.msgs, <<c, seq>>, row)
      <3>0. MsgsType(db.msgs) BY DEF DbType
      <3>1. DOMAIN t = DOMAIN db.msgs \cup {<<c, seq>>} BY DEF WithRow, With
      <3>2. IsFiniteSet(DOMAIN db.msgs \cup {<<c, seq>>}) BY <3>0, FS_AddElement DEF MsgsType
      <3>3. DOMAIN t \subseteq Convs \X Nat BY <3>0, <3>1, SMTT(30) DEF MsgsType
      <3>4. MsgsType(t) BY <3>1, <3>2, <3>3 DEF MsgsType
      <3> HIDE DEF t
      <3>5. DbType(SetMsgs(db, t)) /\ SetMsgs(db, t).members = db.members
            /\ SetMsgs(db, t).convs = db.convs /\ SetMsgs(db, t).ucs = db.ucs
            /\ SetMsgs(db, t).msgs = t
        BY <3>4, SetMsgsLemma
      <3>6. sent = SetMsgs(db, t) BY <2>3 DEF t
      <3> QED BY <3>1, <3>5, <3>6, SMTT(30)
    <2> QED BY <2>1, <2>2, <2>3, InsertMessageOp
  <1> HIDE DEF sent
  <1>2. /\ DbType(bumped) /\ bumped.members = db.members /\ bumped.ucs = db.ucs /\ bumped.msgs = sent.msgs
        /\ bumped.convs = [db.convs EXCEPT ![c] = [@ EXCEPT !.max = seq, !.updated = now]]
    <2> DEFINE t == [sent.convs EXCEPT ![c] = [@ EXCEPT !.max = seq, !.updated = now]]
    <2>1. bumped = SetConvs(sent, t) BY <1>1, SetConversationMaxSeqOp
    <2>2. ConvsType(t)
      <3>1. sent.convs \in [Convs -> ConvRow] BY <1>1 DEF DbType, ConvsType
      <3>2. [sent.convs[c] EXCEPT !.max = seq, !.updated = now] \in ConvRow BY <3>1, ConvExcept
      <3> QED BY <3>1, <3>2 DEF ConvsType
    <2>3. t = [db.convs EXCEPT ![c] = [@ EXCEPT !.max = seq, !.updated = now]] BY <1>1
    <2> HIDE DEF t
    <2>4. DbType(SetConvs(sent, t)) /\ SetConvs(sent, t).members = sent.members
          /\ SetConvs(sent, t).convs = t /\ SetConvs(sent, t).ucs = sent.ucs
          /\ SetConvs(sent, t).msgs = sent.msgs
      BY <1>1, <2>2, SetConvsLemma
    <2> QED BY <1>1, <2>1, <2>3, <2>4, SMTT(30)
  <1> HIDE DEF bumped
  <1>3. /\ DbType(touched) /\ touched.members = db.members /\ touched.msgs = sent.msgs
        /\ touched.convs = bumped.convs
        /\ DOMAIN touched.ucs = DOMAIN db.ucs
        /\ \A k \in DOMAIN db.ucs :
                   /\ touched.ucs[k].min = db.ucs[k].min /\ touched.ucs[k].max = db.ucs[k].max
                   /\ touched.ucs[k].updated = IF k[2] = c /\ db.ucs[k].max = 0
                                         THEN Larger(db.ucs[k].updated, now) ELSE db.ucs[k].updated
    <2> DEFINE t == [k \in DOMAIN bumped.ucs |-> IF k[2] = c /\ bumped.ucs[k].max = 0
                                               THEN [bumped.ucs[k] EXCEPT !.updated = Larger(@, now)] ELSE bumped.ucs[k]]
    <2>1. touched = SetUcs(bumped, t) BY <1>2, TouchConversationMembersOp
    <2>2. \A u \in UcRow : /\ [u EXCEPT !.updated = Larger(@, now)] \in UcRow
                           /\ [u EXCEPT !.updated = Larger(@, now)].min = u.min
                           /\ [u EXCEPT !.updated = Larger(@, now)].max = u.max
                           /\ [u EXCEPT !.updated = Larger(@, now)].updated = Larger(u.updated, now)
      BY UcExcept, UcExceptFields, LargerType
    <2>3. DOMAIN t = DOMAIN db.ucs /\ bumped.ucs = db.ucs /\ \A k \in DOMAIN db.ucs : db.ucs[k] \in UcRow
      BY <1>2 DEF DbType, UcsType
    <2>4. \A k \in DOMAIN db.ucs :
                   /\ t[k] \in UcRow
                   /\ t[k].min = db.ucs[k].min /\ t[k].max = db.ucs[k].max
                   /\ t[k].updated = IF k[2] = c /\ db.ucs[k].max = 0
                                         THEN Larger(db.ucs[k].updated, now) ELSE db.ucs[k].updated
      <3> SUFFICES ASSUME NEW k \in DOMAIN db.ucs
                   PROVE  /\ t[k] \in UcRow
                          /\ t[k].min = db.ucs[k].min /\ t[k].max = db.ucs[k].max
                          /\ t[k].updated = IF k[2] = c /\ db.ucs[k].max = 0
                                            THEN Larger(db.ucs[k].updated, now) ELSE db.ucs[k].updated
        OBVIOUS
      <3>1. t[k] = IF k[2] = c /\ db.ucs[k].max = 0
                   THEN [db.ucs[k] EXCEPT !.updated = Larger(@, now)] ELSE db.ucs[k]
        BY <2>3
      <3> HIDE DEF t
      <3> QED BY <2>2, <2>3, <3>1, SMTT(30)
    <2>5. UcsType(t) BY <2>3, <2>4 DEF UcsType, DbType
    <2> HIDE DEF t
    <2>6. DbType(SetUcs(bumped, t)) /\ SetUcs(bumped, t).members = bumped.members
          /\ SetUcs(bumped, t).convs = bumped.convs /\ SetUcs(bumped, t).ucs = t
          /\ SetUcs(bumped, t).msgs = bumped.msgs
      BY <1>2, <2>5, SetUcsLemma
    <2> QED BY <1>2, <2>1, <2>3, <2>4, <2>6, SMTT(30)
  <1> HIDE DEF touched
  <1>4. CASE sender # me
    <2>1. d = touched BY <1>4 DEF Stored, touched, bumped, sent
    <2> QED BY <1>1, <1>2, <1>3, <2>1, SMTT(30)
  <1>5. CASE sender = me
    <2>1. d = AdvanceReadSeq(touched, me, c, seq).db BY <1>5 DEF Stored, touched, bumped, sent
    <2> HIDE DEF d
    <2> DEFINE t == [k \in DOMAIN touched.ucs |-> IF k = <<me, c>>
                                               THEN [touched.ucs[k] EXCEPT !.read = Larger(@, seq)] ELSE touched.ucs[k]]
    <2>2. d = SetUcs(touched, t) BY <1>3, <2>1, AdvanceReadSeqOp
    <2>3. \A u \in UcRow : /\ [u EXCEPT !.read = Larger(@, seq)] \in UcRow
                           /\ [u EXCEPT !.read = Larger(@, seq)].min = u.min
                           /\ [u EXCEPT !.read = Larger(@, seq)].max = u.max
                           /\ [u EXCEPT !.read = Larger(@, seq)].updated = u.updated
      BY UcExcept, UcExceptFields, LargerType
    <2>4. DOMAIN t = DOMAIN db.ucs /\ \A k \in DOMAIN db.ucs : touched.ucs[k] \in UcRow
      BY <1>3 DEF DbType, UcsType
    <2>5. \A k \in DOMAIN db.ucs :
                   /\ t[k] \in UcRow
                   /\ t[k].min = touched.ucs[k].min /\ t[k].max = touched.ucs[k].max
                   /\ t[k].updated = touched.ucs[k].updated
      BY <1>3, <2>3, <2>4
    <2>6. UcsType(t) BY <2>4, <2>5 DEF UcsType, DbType
    <2> HIDE DEF t
    <2>8. DbType(d) /\ d.members = db.members /\ d.convs = touched.convs /\ d.msgs = touched.msgs /\ d.ucs = t
      BY <1>3, <2>2, <2>6, SetUcsLemma
    <2> QED BY <1>1, <1>2, <1>3, <2>4, <2>5, <2>8, SMTT(30) DEF d
  <1> QED BY <1>4, <1>5

-----------------------------------------------------------------------------
(* Times, rows and the transaction of Send. *)

(* A time cut to its millisecond is a whole number of milliseconds, not      *)
(* later, and monotonic.                                                     *)
LEMMA StampArith ==
  ASSUME NEW t \in Nat, NEW p \in Nat \ {0}
  PROVE  /\ t - (t % p) \in Nat
         /\ ((t - (t % p)) \div p) * p = t - (t % p)
         /\ t - (t % p) <= t
         /\ t - (t % p) <= (t + 1) - ((t + 1) % p)
  <1>1. t - (t % p) = (t \div p) * p /\ (t + 1) - ((t + 1) % p) = ((t + 1) \div p) * p BY SMTT(30)
  <1>2. t \div p \in Nat /\ (t + 1) \div p \in Nat /\ t \div p <= (t + 1) \div p BY SMTT(30)
  <1>3. \A q \in Nat : (q * p) \div p = q BY SMTT(30)
  <1>4. \A q, r \in Nat : q <= r => q * p <= r * p BY SMTT(30)
  <1>5. t % p \in 0 .. (p - 1) BY SMTT(30)
  <1>6. \A q \in Nat : q * p \in Nat BY SMTT(30)
  <1>7. ((t - (t % p)) \div p) * p = t - (t % p) BY <1>1, <1>2, <1>3
  <1>8. t - (t % p) <= (t + 1) - ((t + 1) % p) BY <1>1, <1>2, <1>4
  <1> QED BY <1>1, <1>2, <1>5, <1>6, <1>7, <1>8, SMTT(30)

(* ... for NowMs. *)
LEMMA NowMsFacts ==
  ASSUME NEW t \in Nat
  PROVE  /\ NowMs(t) \in Nat /\ NowMs(t) <= t /\ NowMs(t) <= NowMs(t + 1)
         /\ (NowMs(t) \div PerMs) * PerMs = NowMs(t)
  BY StampArith, WebSyncAssumption DEF NowMs

(* The numbers in the rows of a conversation. *)
LEMMA RowTypes ==
  ASSUME DbType(db), NEW c \in Convs
  PROVE  /\ ConvMax(c) \in Nat /\ db.convs[c].updated \in Nat
         /\ HasRow(c) => /\ Row(c) \in UcRow
                         /\ Row(c).min \in Nat /\ Row(c).max \in Nat /\ Row(c).updated \in Nat
                         /\ Top(c) \in Nat
  <1>1. ConvMax(c) \in Nat /\ db.convs[c].updated \in Nat
    BY SMTT(30) DEF DbType, ConvsType, ConvRow, ConvMax
  <1>2. HasRow(c) => Row(c) \in UcRow BY DEF DbType, UcsType, HasRow, Row
  <1>3. ASSUME HasRow(c) PROVE Row(c).min \in Nat /\ Row(c).max \in Nat /\ Row(c).updated \in Nat
    BY <1>2, <1>3, UcExcept
  <1> QED BY <1>1, <1>2, <1>3 DEF Top, VisibleMax

(* A conversation's place in the page order. *)
LEMMA PlaceType ==
  ASSUME DbType(db), clock \in Nat, NEW c \in Convs
  PROVE  Place(c) \in Pairs /\ Place(c)[2] = c
  BY RowTypes, NowMsFacts, WebSyncAssumption, SMTT(30) DEF Place, Pairs

(* The numbers in the rows of a conversation, after a step. *)
LEMMA RowTypesNext ==
  ASSUME DbType(db'), NEW c \in Convs
  PROVE  /\ ConvMax(c)' \in Nat /\ db'.convs[c].updated \in Nat
         /\ HasRow(c)' => /\ Row(c)' \in UcRow
                          /\ Row(c)'.min \in Nat /\ Row(c)'.max \in Nat /\ Row(c)'.updated \in Nat
                          /\ Top(c)' \in Nat
  <1>1. ConvMax(c)' \in Nat /\ db'.convs[c].updated \in Nat
    BY SMTT(30) DEF DbType, ConvsType, ConvRow, ConvMax
  <1>2. HasRow(c)' => Row(c)' \in UcRow BY DEF DbType, UcsType, HasRow, Row
  <1>3. ASSUME HasRow(c)' PROVE Row(c)'.min \in Nat /\ Row(c)'.max \in Nat /\ Row(c)'.updated \in Nat
    BY <1>2, <1>3, UcExcept
  <1> QED BY <1>1, <1>2, <1>3 DEF Top, VisibleMax

(* The transaction of Send is a step of the tables. *)
LEMMA StoredStep ==
  ASSUME TypeInv, TableInv, TimeInv, NEW c \in Convs, NEW sender, Tick,
         db' = Stored(c, sender, ConvMax(c) + 1, Larger(db.convs[c].updated, NowMs(clock'))),
         moved \subseteq moved', round # {} /\ IsMember(c) => c \in moved'
  PROVE  TableStep /\ ConvMax(c)' = ConvMax(c) + 1
  <1> DEFINE now == NowMs(clock')
             seq == ConvMax(c) + 1
  <1>1. /\ clock \in Nat /\ clock' = clock + 1 /\ clock' \in Nat /\ DbType(db)
        /\ now \in Nat /\ NowMs(clock) \in Nat /\ NowMs(clock) <= now /\ (now \div PerMs) * PerMs = now
    BY NowMsFacts, SMTT(30) DEF TypeInv, Tick
  <1>2. ConvMax(c) \in Nat /\ seq \in Nat /\ db.convs[c].updated \in Nat /\ db.convs[c].updated <= NowMs(clock)
    BY <1>1, RowTypes, SMTT(30) DEF TimeInv, Stamp
  <1> HIDE DEF now, seq
  <1>3. Larger(db.convs[c].updated, now) = now BY <1>1, <1>2, SMTT(30) DEF Larger
  <1>4. db' = Stored(c, sender, seq, now) BY <1>3 DEF seq, now
  <1>5. /\ DbType(db')
        /\ db'.members = db.members
        /\ db'.convs = [db.convs EXCEPT ![c] = [@ EXCEPT !.max = seq, !.updated = now]]
        /\ DOMAIN db'.ucs = DOMAIN db.ucs
        /\ \A k \in DOMAIN db.ucs :
              /\ db'.ucs[k].min = db.ucs[k].min /\ db'.ucs[k].max = db.ucs[k].max
              /\ db'.ucs[k].updated = IF k[2] = c /\ db.ucs[k].max = 0
                                      THEN Larger(db.ucs[k].updated, now) ELSE db.ucs[k].updated
        /\ DOMAIN db'.msgs \subseteq DOMAIN db.msgs \cup {<<c, seq>>}
    <2> DEFINE d == Stored(c, sender, seq, now)
    <2>1. /\ DbType(d)
          /\ d.members = db.members
          /\ d.convs = [db.convs EXCEPT ![c] = [@ EXCEPT !.max = seq, !.updated = now]]
          /\ DOMAIN d.ucs = DOMAIN db.ucs
          /\ \A k \in DOMAIN db.ucs :
                /\ d.ucs[k].min = db.ucs[k].min /\ d.ucs[k].max = db.ucs[k].max
                /\ d.ucs[k].updated = IF k[2] = c /\ db.ucs[k].max = 0
                                      THEN Larger(db.ucs[k].updated, now) ELSE db.ucs[k].updated
          /\ DOMAIN d.msgs \subseteq DOMAIN db.msgs \cup {<<c, seq>>}
      BY <1>1, <1>2, StoredDb
    <2>2. db' = d BY <1>4
    <2> HIDE DEF d
    <2> QED BY <2>1, <2>2, SMTT(30)
  <1>6. \A x \in Convs : /\ ConvMax(x)' = IF x = c THEN seq ELSE ConvMax(x)
                         /\ db'.convs[x].updated = IF x = c THEN now ELSE db.convs[x].updated
    <2>1. db.convs \in [Convs -> ConvRow] BY <1>1 DEF DbType, ConvsType
    <2>2. \A v \in ConvRow : /\ [v EXCEPT !.max = seq, !.updated = now].max = seq
                             /\ [v EXCEPT !.max = seq, !.updated = now].updated = now
      BY SMTT(30) DEF ConvRow
    <2>3. \A x \in Convs : db'.convs[x] = IF x = c THEN [db.convs[c] EXCEPT !.max = seq, !.updated = now]
                                           ELSE db.convs[x]
      BY <1>5, <2>1
    <2>4. ConvMax(c)' = seq /\ db'.convs[c].updated = now BY <2>1, <2>2, <2>3 DEF ConvMax
    <2>5. \A x \in Convs : x # c => ConvMax(x)' = ConvMax(x) /\ db'.convs[x].updated = db.convs[x].updated
      BY <2>3 DEF ConvMax
    <2> QED BY <2>4, <2>5
  <1>7. \A x \in Convs : /\ HasRow(x)' <=> HasRow(x)
                         /\ IsMember(x)' <=> IsMember(x)
                         /\ HasRow(x) => /\ Row(x)'.min = Row(x).min /\ Row(x)'.max = Row(x).max
                                         /\ Row(x)'.updated = IF x = c /\ Row(x).max = 0 THEN now ELSE Row(x).updated
    <2> SUFFICES ASSUME NEW x \in Convs
                 PROVE  /\ HasRow(x)' <=> HasRow(x)
                        /\ IsMember(x)' <=> IsMember(x)
                        /\ HasRow(x) => /\ Row(x)'.min = Row(x).min /\ Row(x)'.max = Row(x).max
                                         /\ Row(x)'.updated = IF x = c /\ Row(x).max = 0 THEN now ELSE Row(x).updated
      OBVIOUS
    <2>1. (HasRow(x)' <=> HasRow(x)) /\ (IsMember(x)' <=> IsMember(x)) BY <1>5 DEF HasRow, IsMember
    <2>2. ASSUME HasRow(x) PROVE /\ Row(x)'.min = Row(x).min /\ Row(x)'.max = Row(x).max
                                 /\ Row(x)'.updated = IF x = c /\ Row(x).max = 0 THEN Larger(Row(x).updated, now) ELSE Row(x).updated
      <3>1. <<me, x>> \in DOMAIN db.ucs /\ <<me, x>>[2] = x BY <2>2 DEF HasRow
      <3> QED BY <1>5, <3>1 DEF Row
    <2>3. ASSUME HasRow(x) PROVE Larger(Row(x).updated, now) = now
      <3>1. Row(x).updated \in Nat /\ Row(x).updated <= NowMs(clock)
        BY <2>3, <1>1, RowTypes DEF TimeInv, Stamp
      <3> QED BY <3>1, <1>1, SMTT(30) DEF Larger
    <2> QED BY <2>1, <2>2, <2>3
  <1>8. TableInv'
    <2>1. \A k \in DOMAIN db'.msgs : 1 <= k[2] /\ k[2] <= ConvMax(k[1])'
      <3> SUFFICES ASSUME NEW k \in DOMAIN db'.msgs PROVE 1 <= k[2] /\ k[2] <= ConvMax(k[1])' OBVIOUS
      <3>1. CASE k = <<c, seq>>
        <4>1. k[1] = c /\ k[2] = seq BY <3>1
        <4> QED BY <4>1, <1>2, <1>6, SMTT(30) DEF seq
      <3>2. CASE k \in DOMAIN db.msgs
        <4>1. k[1] \in Convs /\ k[2] \in Nat BY <3>2, <1>1 DEF DbType, MsgsType
        <4>2. 1 <= k[2] /\ k[2] <= ConvMax(k[1]) BY <3>2 DEF TableInv
        <4> QED BY <4>1, <4>2, <1>1, <1>2, <1>6, RowTypes, SMTT(30) DEF seq
      <3> QED BY <1>5, <3>1, <3>2
    <2>2. ASSUME NEW x \in Convs, HasRow(x)'
          PROVE  /\ Row(x)'.min <= ConvMax(x)' + 1 /\ Row(x)'.max <= ConvMax(x)'
                 /\ IsMember(x)' \/ Row(x)'.max > 0
      <3>1. HasRow(x) BY <1>7, <2>2
      <3>2. Row(x).min \in Nat /\ Row(x).max \in Nat /\ ConvMax(x) \in Nat BY <1>1, <3>1, RowTypes
      <3>3. Row(x).min <= ConvMax(x) + 1 /\ Row(x).max <= ConvMax(x) /\ (IsMember(x) \/ Row(x).max > 0) BY <3>1 DEF TableInv
      <3>4. Row(x)'.min = Row(x).min /\ Row(x)'.max = Row(x).max /\ (IsMember(x)' <=> IsMember(x)) BY <1>7, <3>1
      <3>5. ConvMax(x)' = IF x = c THEN seq ELSE ConvMax(x) BY <1>6
      <3> QED BY <3>2, <3>3, <3>4, <3>5, SMTT(30) DEF seq
    <2> QED BY <2>1, <2>2 DEF TableInv
  <1>9. TimeInv'
    <2> SUFFICES ASSUME NEW x \in Convs
                 PROVE  /\ Stamp(db'.convs[x].updated, NowMs(clock'))
                        /\ HasRow(x)' => Stamp(Row(x)'.updated, NowMs(clock'))
      BY DEF TimeInv
    <2>1. Stamp(now, NowMs(clock')) BY <1>1, SMTT(30) DEF Stamp, now
    <2>2. ASSUME NEW t \in Nat, Stamp(t, NowMs(clock)) PROVE Stamp(t, NowMs(clock'))
      BY <2>2, <1>1, SMTT(30) DEF Stamp, now
    <2>3. Stamp(db'.convs[x].updated, NowMs(clock')) BY <2>1, <2>2, <1>1, <1>6, RowTypes DEF TimeInv
    <2>4. ASSUME HasRow(x)' PROVE Stamp(Row(x)'.updated, NowMs(clock'))
      BY <2>4, <2>1, <2>2, <1>1, <1>7, RowTypes DEF TimeInv
    <2> QED BY <2>3, <2>4
  <1>10. ASSUME NEW x \in Convs
         PROVE  /\ ConvMax(x) <= ConvMax(x)'
                /\ HasRow(x)' => HasRow(x) /\ Row(x).min = Row(x)'.min
                /\ HasRow(x)' => \A s \in Nat : s <= ConvMax(x) /\ (HasRow(x) => s <= Top(x)) => s <= Top(x)'
                /\ ~Precedes(Place(x)', Place(x))
                /\ round # {} /\ HasRow(x)' /\ x \notin moved' =>
                      HasRow(x) /\ Row(x)'.updated = Row(x).updated /\ x \notin moved
    <2>1. ConvMax(x) \in Nat /\ ConvMax(x)' = IF x = c THEN seq ELSE ConvMax(x) BY <1>1, <1>6, RowTypes
    <2>2. ConvMax(x) <= ConvMax(x)' BY <2>1, <1>2, SMTT(30) DEF seq
    <2>3. ASSUME HasRow(x)', NEW s \in Nat, s <= ConvMax(x), HasRow(x) => s <= Top(x) PROVE s <= Top(x)'
      <3>1. /\ HasRow(x) /\ Row(x).max \in Nat /\ Row(x).max <= ConvMax(x) /\ s <= Top(x)
            /\ Row(x)'.max = Row(x).max
        BY <1>1, <1>7, <2>3, RowTypes DEF TableInv
      <3> QED BY <2>1, <2>2, <3>1, <1>2, SMTT(30) DEF Top, VisibleMax, seq
    <2>4. ~Precedes(Place(x)', Place(x))
      <3>1. CASE HasRow(x)
        <4>1. Row(x).updated \in Nat /\ Row(x).updated <= NowMs(clock) /\ HasRow(x)'
              /\ (Row(x)'.updated = now \/ Row(x)'.updated = Row(x).updated)
          BY <3>1, <1>1, <1>7, RowTypes DEF TimeInv, Stamp
        <4>2. Place(x) = <<Row(x).updated, x>> /\ Place(x)' = <<Row(x)'.updated, x>> BY <4>1, <3>1 DEF Place
        <4>3. x \in Nat BY WebSyncAssumption
        <4> QED BY <4>1, <4>2, <4>3, <1>1, SMTT(30) DEF Precedes
      <3>2. CASE ~HasRow(x)
        <4>1. Place(x) = <<NowMs(clock), x>> /\ Place(x)' = <<now, x>> BY <3>2, <1>7 DEF Place, now
        <4>3. x \in Nat BY WebSyncAssumption
        <4> QED BY <4>1, <4>3, <1>1, SMTT(30) DEF Precedes
      <3> QED BY <3>1, <3>2
    <2>5. ASSUME round # {}, HasRow(x)', x \notin moved' PROVE HasRow(x) /\ Row(x)'.updated = Row(x).updated /\ x \notin moved
      <3>1. HasRow(x) /\ x \notin moved BY <1>7, <2>5
      <3>2. ~(x = c /\ Row(x).max = 0)
        <4> SUFFICES ASSUME x = c, Row(x).max = 0 PROVE FALSE OBVIOUS
        <4>1. ~IsMember(x) BY <2>5
        <4>2. Row(x).max > 0 BY <3>1, <4>1 DEF TableInv
        <4> QED BY <4>2, SMTT(30)
      <3> QED BY <1>7, <3>1, <3>2
    <2>6. HasRow(x)' => HasRow(x) /\ Row(x).min = Row(x)'.min BY <1>7
    <2> QED BY <2>2, <2>3, <2>4, <2>5, <2>6
  <1>11. ConvMax(c)' = ConvMax(c) + 1 BY <1>6 DEF seq
  <1> QED BY <1>1, <1>5, <1>8, <1>9, <1>10, <1>11 DEF TableStep, now

SameRow(x) ==
    /\ HasRow(x)' <=> HasRow(x)
    /\ IsMember(x)' <=> IsMember(x)
    /\ HasRow(x) => /\ Row(x)'.min = Row(x).min /\ Row(x)'.max = Row(x).max
                    /\ Row(x)'.updated = Row(x).updated
FrozenRow(x) ==
    /\ ConvMax(x) > 0 /\ (HasRow(x)' <=> HasRow(x))
    /\ HasRow(x) => /\ Row(x)'.min = Row(x).min /\ Row(x)'.max = ConvMax(x)
                    /\ Row(x)'.updated = Row(x).updated
JoinedRow(x) ==
    /\ HasRow(x)' /\ IsMember(x)' /\ (round # {} => x \in moved')
    /\ Row(x)'.min = ConvMax(x) + 1 /\ Row(x)'.max = 0 /\ Row(x)'.updated = NowMs(clock')

-----------------------------------------------------------------------------
(* Leaving and joining. *)

(* Rows that stay, go, are frozen at the maximum or are joined again make a  *)
(* step of the tables.                                                       *)
LEMMA TableFromRows ==
  ASSUME TypeInv, TableInv, TimeInv, DbType(db'), db'.convs = db.convs, db'.msgs = db.msgs,
         clock' \in {clock, clock + 1}, moved \subseteq moved',
         \A x \in Convs : SameRow(x) \/ ~HasRow(x)' \/ FrozenRow(x) \/ JoinedRow(x)
  PROVE  TableStep
  <1>1. /\ clock \in Nat /\ clock' \in Nat /\ DbType(db) /\ NowMs(clock) \in Nat /\ NowMs(clock') \in Nat
        /\ NowMs(clock) <= NowMs(clock') /\ (NowMs(clock') \div PerMs) * PerMs = NowMs(clock')
    <2>1. clock \in Nat /\ DbType(db) BY DEF TypeInv
    <2>2. clock' \in Nat BY <2>1, SMTT(30)
    <2>3. NowMs(clock) \in Nat /\ NowMs(clock') \in Nat /\ NowMs(clock) <= NowMs(clock + 1)
          /\ (NowMs(clock') \div PerMs) * PerMs = NowMs(clock')
      BY <2>1, <2>2, NowMsFacts
    <2>4. CASE clock' = clock BY <2>1, <2>2, <2>3, <2>4, SMTT(30)
    <2>5. CASE clock' = clock + 1 BY <2>1, <2>2, <2>3, <2>5
    <2> QED BY <2>4, <2>5
  <1>2. \A x : ConvMax(x)' = ConvMax(x) BY DEF ConvMax
  <1>3. TableInv'
    <2>1. ASSUME NEW k \in DOMAIN db'.msgs PROVE 1 <= k[2] /\ k[2] <= ConvMax(k[1])'
      BY <1>2, <2>1 DEF TableInv
    <2>2. ASSUME NEW x \in Convs, HasRow(x)'
          PROVE  /\ Row(x)'.min <= ConvMax(x)' + 1 /\ Row(x)'.max <= ConvMax(x)'
                 /\ IsMember(x)' \/ Row(x)'.max > 0
      <3>0. ConvMax(x) \in Nat /\ ConvMax(x)' = ConvMax(x) BY <1>1, <1>2, RowTypes
      <3>1. CASE SameRow(x) BY <2>2, <3>0, <3>1 DEF TableInv, SameRow
      <3>2. CASE FrozenRow(x)
        <4>1. /\ HasRow(x) /\ Row(x).min <= ConvMax(x) + 1
              /\ Row(x)'.min = Row(x).min /\ Row(x)'.max = ConvMax(x) /\ ConvMax(x) > 0
          BY <2>2, <3>2 DEF FrozenRow, TableInv
        <4> QED BY <3>0, <4>1, SMTT(30)
      <3>3. CASE JoinedRow(x)
        <4>1. IsMember(x)' /\ Row(x)'.min = ConvMax(x) + 1 /\ Row(x)'.max = 0 BY <3>3 DEF JoinedRow
        <4> QED BY <3>0, <4>1, SMTT(30)
      <3> QED BY <2>2, <3>1, <3>2, <3>3
    <2> QED BY <2>1, <2>2 DEF TableInv
  <1>4. TimeInv'
    <2> SUFFICES ASSUME NEW x \in Convs
                 PROVE  /\ Stamp(db'.convs[x].updated, NowMs(clock'))
                        /\ HasRow(x)' => Stamp(Row(x)'.updated, NowMs(clock'))
      BY DEF TimeInv
    <2>2. ASSUME NEW t \in Nat, Stamp(t, NowMs(clock)) PROVE Stamp(t, NowMs(clock'))
      BY <2>2, <1>1, SMTT(30) DEF Stamp
    <2>3. Stamp(db'.convs[x].updated, NowMs(clock'))
      <3>1. db.convs[x].updated \in Nat /\ Stamp(db.convs[x].updated, NowMs(clock)) BY <1>1, RowTypes DEF TimeInv
      <3> QED BY <3>1, <2>2
    <2>4. ASSUME HasRow(x)' PROVE Stamp(Row(x)'.updated, NowMs(clock'))
      <3>1. CASE HasRow(x) /\ Row(x)'.updated = Row(x).updated
        <4>1. Row(x).updated \in Nat /\ Stamp(Row(x).updated, NowMs(clock)) BY <1>1, <3>1, RowTypes DEF TimeInv
        <4> QED BY <4>1, <3>1, <2>2
      <3>2. CASE JoinedRow(x)
        <4>1. Stamp(NowMs(clock'), NowMs(clock')) BY <1>1, SMTT(30) DEF Stamp
        <4> QED BY <4>1, <3>2 DEF JoinedRow
      <3> QED BY <2>4, <3>1, <3>2 DEF SameRow, FrozenRow
    <2> QED BY <2>3, <2>4
  <1>5. ASSUME NEW x \in Convs
        PROVE  /\ ConvMax(x) <= ConvMax(x)'
               /\ HasRow(x)' => \/ HasRow(x) /\ Row(x).min = Row(x)'.min
                                \/ Row(x)'.min = ConvMax(x) + 1
               /\ HasRow(x)' => \A s \in Nat : s <= ConvMax(x) /\ (HasRow(x) => s <= Top(x)) => s <= Top(x)'
               /\ ~Precedes(Place(x)', Place(x))
               /\ round # {} /\ HasRow(x)' /\ x \notin moved' =>
                     HasRow(x) /\ Row(x)'.updated = Row(x).updated /\ x \notin moved
    <2>1. ConvMax(x) \in Nat /\ ConvMax(x)' = ConvMax(x) BY <1>1, <1>2, RowTypes
    <2>2. ConvMax(x) <= ConvMax(x)' BY <2>1, SMTT(30)
    <2>3. ASSUME HasRow(x)', NEW s \in Nat, s <= ConvMax(x), HasRow(x) => s <= Top(x) PROVE s <= Top(x)'
      <3>1. CASE SameRow(x)
        <4>1. HasRow(x) /\ Row(x)'.max = Row(x).max BY <2>3, <3>1 DEF SameRow
        <4> QED BY <2>1, <2>3, <4>1 DEF Top, VisibleMax
      <3>2. CASE FrozenRow(x)
        <4>1. Row(x)'.max = ConvMax(x) /\ ConvMax(x) > 0 BY <2>3, <3>2 DEF FrozenRow
        <4> QED BY <2>1, <2>3, <4>1, SMTT(30) DEF Top, VisibleMax
      <3>3. CASE JoinedRow(x)
        <4>1. Row(x)'.max = 0 BY <2>3, <3>3 DEF JoinedRow
        <4> QED BY <2>1, <2>3, <4>1, SMTT(30) DEF Top, VisibleMax
      <3> QED BY <2>3, <3>1, <3>2, <3>3
    <2>4. ~Precedes(Place(x)', Place(x))
      <3>0. x \in Nat BY WebSyncAssumption
      <3>1. CASE HasRow(x)
        <4>1. Row(x).updated \in Nat /\ Row(x).updated <= NowMs(clock)
              /\ (HasRow(x)' => Row(x)'.updated = NowMs(clock') \/ Row(x)'.updated = Row(x).updated)
          BY <3>1, <1>1, RowTypes DEF TimeInv, Stamp, SameRow, FrozenRow, JoinedRow
        <4>2. Place(x) = <<Row(x).updated, x>> BY <3>1 DEF Place
        <4>3. CASE HasRow(x)'
          <5>1. Place(x)' = <<Row(x)'.updated, x>> BY <4>3 DEF Place
          <5> QED BY <3>0, <4>1, <4>2, <4>3, <5>1, <1>1, SMTT(30) DEF Precedes
        <4>4. CASE ~HasRow(x)'
          <5>1. Place(x)' = <<NowMs(clock'), x>> BY <4>4 DEF Place
          <5> QED BY <3>0, <4>1, <4>2, <5>1, <1>1, SMTT(30) DEF Precedes
        <4> QED BY <4>3, <4>4
      <3>2. CASE ~HasRow(x)
        <4>1. Place(x) = <<NowMs(clock), x>> BY <3>2 DEF Place
        <4>2. Place(x)' = <<NowMs(clock'), x>>
          <5>1. HasRow(x)' => Row(x)'.updated = NowMs(clock') BY <3>2 DEF SameRow, FrozenRow, JoinedRow
          <5> QED BY <5>1 DEF Place
        <4> QED BY <3>0, <4>1, <4>2, <1>1, SMTT(30) DEF Precedes
      <3> QED BY <3>1, <3>2
    <2>5. ASSUME round # {}, HasRow(x)', x \notin moved' PROVE HasRow(x) /\ Row(x)'.updated = Row(x).updated /\ x \notin moved
      BY <2>5 DEF SameRow, FrozenRow, JoinedRow
    <2>6. HasRow(x)' => \/ HasRow(x) /\ Row(x).min = Row(x)'.min
                        \/ Row(x)'.min = ConvMax(x) + 1
      BY DEF SameRow, FrozenRow, JoinedRow
    <2> QED BY <2>2, <2>3, <2>4, <2>5, <2>6
  <1> QED BY <1>1, <1>3, <1>4, <1>5 DEF TableStep

(* Leaving a group is a step of the tables. *)
LEMMA LeaveStep ==
  ASSUME TypeInv, TableInv, TimeInv, NEW c \in Convs, Leave(c)
  PROVE  TableStep
  <1> DEFINE out == RemoveGroupMember(db, c, me).db
  <1>1. DbType(db) /\ clock' = clock /\ moved' = moved BY DEF TypeInv, Leave
  <1>2. /\ DbType(out) /\ out.convs = db.convs /\ out.msgs = db.msgs /\ out.ucs = db.ucs
        /\ DOMAIN out.members = DOMAIN db.members \ {<<c, me>>}
    <2>1. PICK t : out = SetMembers(db, t) /\ DOMAIN t = DOMAIN db.members \ {<<c, me>>}
      BY <1>1, RemoveGroupMemberOp
    <2>2. /\ DbType(SetMembers(db, t)) /\ SetMembers(db, t).convs = db.convs /\ SetMembers(db, t).msgs = db.msgs
          /\ SetMembers(db, t).ucs = db.ucs /\ SetMembers(db, t).members = t
      BY <1>1, SetMembersLemma
    <2> QED BY <2>1, <2>2, SMTT(30)
  <1>3. db' = IF ConvMax(c) = 0 THEN DeleteUserConversation(out, me, c).db
              ELSE SetUserConversationMaxSeq(out, me, c, ConvMax(c)).db
    BY DEF Leave
  <1> HIDE DEF out
  <1>4. ConvMax(c) \in Nat BY <1>1, RowTypes
  <1>5. UcsType(db.ucs) BY <1>1 DEF DbType
  <1>6. CASE ConvMax(c) = 0
    <2> DEFINE t == [k \in DOMAIN out.ucs \ {<<me, c>>} |-> out.ucs[k]]
    <2>1. db' = SetUcs(out, t) BY <1>2, <1>3, <1>6, DeleteUserConversationOp
    <2>2. UcsType(t) BY <1>2, <1>5 DEF UcsType
    <2>3. DOMAIN t = DOMAIN db.ucs \ {<<me, c>>} /\ \A k \in DOMAIN t : t[k] = db.ucs[k] BY <1>2
    <2> HIDE DEF t
    <2>4. /\ DbType(SetUcs(out, t)) /\ SetUcs(out, t).convs = db.convs /\ SetUcs(out, t).msgs = db.msgs
          /\ SetUcs(out, t).ucs = t /\ SetUcs(out, t).members = out.members
      BY <1>2, <2>2, SetUcsLemma
    <2>5. DbType(db') /\ db'.convs = db.convs /\ db'.msgs = db.msgs /\ db'.ucs = t /\ db'.members = out.members
      BY <2>1, <2>4, SMTT(30)
    <2>6. ASSUME NEW x \in Convs PROVE SameRow(x) \/ ~HasRow(x)'
      <3>1. CASE x = c BY <3>1, <2>3, <2>5 DEF HasRow
      <3>2. CASE x # c
        <4>1. <<me, x>> # <<me, c>> /\ <<x, me>> # <<c, me>> BY <3>2, SMTT(30)
        <4> QED BY <4>1, <1>2, <2>3, <2>5 DEF SameRow, HasRow, IsMember, Row
      <3> QED BY <3>1, <3>2
    <2> QED BY <1>1, <2>5, <2>6, TableFromRows
  <1>7. CASE ConvMax(c) # 0
    <2> DEFINE t == [k \in DOMAIN out.ucs |-> IF k = <<me, c>> THEN [out.ucs[k] EXCEPT !.max = ConvMax(c)] ELSE out.ucs[k]]
    <2>1. db' = SetUcs(out, t) BY <1>2, <1>3, <1>4, <1>7, SetUserConversationMaxSeqOp
    <2>2. UcsType(t)
      <3>1. \A k \in DOMAIN out.ucs : out.ucs[k] \in UcRow BY <1>2, <1>5 DEF UcsType
      <3>2. \A k \in DOMAIN out.ucs : t[k] \in UcRow BY <3>1, <1>4, UcExcept
      <3> QED BY <1>2, <1>5, <3>2 DEF UcsType
    <2>3. DOMAIN t = DOMAIN db.ucs /\ \A k \in DOMAIN t : k # <<me, c>> => t[k] = db.ucs[k] BY <1>2
    <2>30. <<me, c>> \in DOMAIN db.ucs =>
             /\ t[<<me, c>>].min = db.ucs[<<me, c>>].min /\ t[<<me, c>>].max = ConvMax(c)
             /\ t[<<me, c>>].updated = db.ucs[<<me, c>>].updated
      <3>1. <<me, c>> \in DOMAIN db.ucs => db.ucs[<<me, c>>] \in UcRow BY <1>5 DEF UcsType
      <3>2. <<me, c>> \in DOMAIN db.ucs => t[<<me, c>>] = [db.ucs[<<me, c>>] EXCEPT !.max = ConvMax(c)] BY <1>2
      <3> HIDE DEF t
      <3> SUFFICES ASSUME <<me, c>> \in DOMAIN db.ucs
                   PROVE  /\ t[<<me, c>>].min = db.ucs[<<me, c>>].min /\ t[<<me, c>>].max = ConvMax(c)
                          /\ t[<<me, c>>].updated = db.ucs[<<me, c>>].updated
        OBVIOUS
      <3>3. PICK u \in UcRow : u = db.ucs[<<me, c>>] BY <3>1
      <3>4. t[<<me, c>>] = [u EXCEPT !.max = ConvMax(c)] BY <3>2, <3>3
      <3>5. [u EXCEPT !.max = ConvMax(c)].min = u.min /\ [u EXCEPT !.max = ConvMax(c)].max = ConvMax(c)
            /\ [u EXCEPT !.max = ConvMax(c)].updated = u.updated
        BY <1>4, UcExceptFields
      <3> QED BY <3>3, <3>4, <3>5, SMTT(30)
    <2> HIDE DEF t
    <2>4. /\ DbType(SetUcs(out, t)) /\ SetUcs(out, t).convs = db.convs /\ SetUcs(out, t).msgs = db.msgs
          /\ SetUcs(out, t).ucs = t /\ SetUcs(out, t).members = out.members
      BY <1>2, <2>2, SetUcsLemma
    <2>5. DbType(db') /\ db'.convs = db.convs /\ db'.msgs = db.msgs /\ db'.ucs = t /\ db'.members = out.members
      BY <2>1, <2>4, SMTT(30)
    <2>6. ASSUME NEW x \in Convs PROVE SameRow(x) \/ FrozenRow(x)
      <3>1. CASE x = c
        <4>1. ConvMax(x) > 0 BY <1>4, <1>7, <3>1, SMTT(30)
        <4>2. HasRow(x)' <=> HasRow(x) BY <2>3, <2>5 DEF HasRow
        <4>3. HasRow(x) => /\ Row(x)'.min = Row(x).min /\ Row(x)'.max = ConvMax(x)
                           /\ Row(x)'.updated = Row(x).updated
          BY <3>1, <2>5, <2>30 DEF HasRow, Row
        <4> QED BY <4>1, <4>2, <4>3 DEF FrozenRow
      <3>2. CASE x # c
        <4>1. <<me, x>> # <<me, c>> /\ <<x, me>> # <<c, me>> BY <3>2, SMTT(30)
        <4> QED BY <4>1, <1>2, <2>3, <2>5 DEF SameRow, HasRow, IsMember, Row
      <3> QED BY <3>1, <3>2
    <2> QED BY <1>1, <2>5, <2>6, TableFromRows
  <1> QED BY <1>6, <1>7

(* Joining a group again is a step of the tables. *)
LEMMA JoinStep ==
  ASSUME TypeInv, TableInv, TimeInv, NEW c \in Convs, Join(c)
  PROVE  TableStep
  <1> DEFINE in == AddGroupMember(db, c, me, [role |-> 1]).db
             row == NewRow(ConvMax(c) + 1, ConvMax(c), NowMs(clock'))
             key == <<me, c>>
  <1>1. /\ DbType(db) /\ clock \in Nat /\ clock' = clock + 1 /\ moved \subseteq moved' /\ (round # {} => c \in moved')
        /\ <<c, me>> \notin DOMAIN db.members
    BY DEF TypeInv, Join, Tick, Moves, IsMember
  <1>2. /\ DbType(in) /\ in.convs = db.convs /\ in.msgs = db.msgs /\ in.ucs = db.ucs
        /\ DOMAIN in.members = DOMAIN db.members \cup {<<c, me>>}
    <2>1. PICK t : in = SetMembers(db, t) /\ DOMAIN t = DOMAIN db.members \cup {<<c, me>>}
      BY <1>1, AddGroupMemberOp
    <2>2. /\ DbType(SetMembers(db, t)) /\ SetMembers(db, t).convs = db.convs /\ SetMembers(db, t).msgs = db.msgs
          /\ SetMembers(db, t).ucs = db.ucs /\ SetMembers(db, t).members = t
      BY <1>1, SetMembersLemma
    <2> QED BY <2>1, <2>2, SMTT(30)
  <1>3. db' = UpsertUserConversation(in, me, c, row).db BY DEF Join
  <1> HIDE DEF in
  <1>4. ConvMax(c) \in Nat /\ clock' \in Nat /\ NowMs(clock') \in Nat /\ ConvMax(c) + 1 \in Nat
    BY <1>1, RowTypes, NowMsFacts, SMTT(30)
  <1>5. UcsType(db.ucs) BY <1>1 DEF DbType
  <1>6. /\ row \in UcRow /\ row.min = ConvMax(c) + 1 /\ row.max = 0 /\ row.read = ConvMax(c)
        /\ row.updated = NowMs(clock')
    BY <1>4, SMTT(30) DEF UcRow, NewRow
  <1> HIDE DEF row
  <1> DEFINE new == UpsertedRow(in, c, row)
             t == [k \in DOMAIN in.ucs \cup {key} |-> IF k = key THEN new ELSE in.ucs[k]]
  <1>7. new \in UcRow /\ new.min = ConvMax(c) + 1 /\ new.max = 0 /\ new.updated = NowMs(clock')
    <2>1. CASE key \in DOMAIN in.ucs
      <3>1. in.ucs[key] \in UcRow BY <1>2, <1>5, <2>1 DEF UcsType
      <3>2. PICK u \in UcRow : u = in.ucs[key] BY <3>1
      <3>3. row.min \in Nat /\ row.max \in Nat /\ row.read \in Nat /\ row.updated \in Nat BY <1>4, <1>6, SMTT(30)
      <3>4. PICK u1 : u1 = [u EXCEPT !.min = row.min] OBVIOUS
      <3>40. u1 \in UcRow /\ u1.min = row.min BY <3>3, <3>4, SMTT(30) DEF UcRow
      <3>5. PICK u2 : u2 = [u1 EXCEPT !.max = row.max] OBVIOUS
      <3>50. u2 \in UcRow /\ u2.min = row.min /\ u2.max = row.max BY <3>3, <3>40, <3>5, SMTT(30) DEF UcRow
      <3>6. PICK u3 : u3 = [u2 EXCEPT !.read = row.read] OBVIOUS
      <3>60. u3 \in UcRow /\ u3.min = row.min /\ u3.max = row.max BY <3>3, <3>50, <3>6, SMTT(30) DEF UcRow
      <3>7. PICK u4 : u4 = [u3 EXCEPT !.updated = row.updated] OBVIOUS
      <3>70. u4 \in UcRow /\ u4.min = row.min /\ u4.max = row.max /\ u4.updated = row.updated
        BY <3>3, <3>60, <3>7, SMTT(30) DEF UcRow
      <3>8. new = u4 BY <2>1, <3>2, <3>4, <3>5, <3>6, <3>7 DEF UpsertedRow
      <3> QED BY <1>6, <3>70, <3>8
    <2>2. CASE key \notin DOMAIN in.ucs
      <3>1. new = [row EXCEPT !.created = row.updated] BY <2>2 DEF UpsertedRow
      <3> HIDE DEF new
      <3> QED BY <3>1, <1>4, <1>6, SMTT(30) DEF UcRow
    <2> QED BY <2>1, <2>2
  <1>8. db' = SetUcs(in, t) BY <1>2, <1>3, UpsertUserConversationOp
  <1> HIDE DEF new
  <1>9. UcsType(t)
    <2>1. \A k \in DOMAIN in.ucs : in.ucs[k] \in UcRow BY <1>2, <1>5 DEF UcsType
    <2>2. \A k \in DOMAIN t : t[k] \in UcRow BY <2>1, <1>7
    <2>3. DOMAIN in.ucs \subseteq {me} \X Convs /\ key \in {me} \X Convs BY <1>2, <1>5 DEF UcsType
    <2>4. DOMAIN t = DOMAIN in.ucs \cup {key} OBVIOUS
    <2>5. DOMAIN t \subseteq {me} \X Convs BY <2>3, <2>4
    <2> QED BY <2>2, <2>5 DEF UcsType
  <1>10. DOMAIN t = DOMAIN db.ucs \cup {key} /\ t[key] = new /\ \A k \in DOMAIN db.ucs : k # key => t[k] = db.ucs[k]
    BY <1>2
  <1> HIDE DEF t
  <1>11. /\ DbType(SetUcs(in, t)) /\ SetUcs(in, t).convs = db.convs /\ SetUcs(in, t).msgs = db.msgs
         /\ SetUcs(in, t).ucs = t /\ SetUcs(in, t).members = in.members
    BY <1>2, <1>9, SetUcsLemma
  <1>12. DbType(db') /\ db'.convs = db.convs /\ db'.msgs = db.msgs /\ db'.ucs = t /\ db'.members = in.members
    BY <1>8, <1>11, SMTT(30)
  <1>13. ASSUME NEW x \in Convs PROVE SameRow(x) \/ JoinedRow(x)
    <2>1. CASE x = c
      <3>1. HasRow(x)' /\ Row(x)' = new BY <2>1, <1>10, <1>12 DEF HasRow, Row
      <3>2. IsMember(x)' BY <2>1, <1>2, <1>12 DEF IsMember
      <3> QED BY <2>1, <3>1, <3>2, <1>1, <1>7 DEF JoinedRow
    <2>2. CASE x # c
      <3>1. <<me, x>> # <<me, c>> /\ <<x, me>> # <<c, me>> BY <2>2, SMTT(30)
      <3> QED BY <3>1, <1>2, <1>10, <1>12 DEF SameRow, HasRow, IsMember, Row
    <2> QED BY <2>1, <2>2
  <1> QED BY <1>1, <1>12, <1>13, TableFromRows

-----------------------------------------------------------------------------
(* Reading a row, MarkRead and Pushes. *)

(* A nonempty set of numbers has a least one. *)
LEMMA NatMin == ASSUME NEW T \in SUBSET Nat, T # {} PROVE \E n \in T : \A m \in T : n <= m
  <1>1. \E n \in T : \A m \in T : ~(<<m, n>> \in OpToRel(<, Nat)) BY NatLessThanWellFounded, WFMin
  <1>2. \A m, n \in Nat : <<m, n>> \in OpToRel(<, Nat) <=> m < n BY DEF OpToRel
  <1>3. \E n \in T : \A m \in T : ~(m < n) BY <1>1, <1>2
  <1> QED BY <1>3, SMTT(30)

(* A nonempty bounded set of numbers has a greatest one. *)
LEMMA NatMax ==
  ASSUME NEW k \in Nat, NEW T \in SUBSET Nat, T # {}, \A x \in T : x <= k
  PROVE  \E n \in T : \A m \in T : m <= n
  <1> DEFINE U == {k - x : x \in T}
  <1>0. \A x \in T : k - x \in Nat BY SMTT(30)
  <1>1. U \in SUBSET Nat /\ U # {} BY <1>0
  <1>2. PICK u \in U : \A v \in U : u <= v BY <1>1, NatMin
  <1>3. PICK n \in T : u = k - n BY <1>2
  <1>4. ASSUME NEW m \in T PROVE m <= n
    <2>1. k - n <= k - m BY <1>2, <1>3
    <2> QED BY <2>1, SMTT(30)
  <1> QED BY <1>4

(* CHOOSE from a singleton. *)
LEMMA TheOne == ASSUME NEW e PROVE (CHOOSE x \in {e} : TRUE) = e
  OBVIOUS

(* GetUserConversationRow finds the user's row with the conversation's       *)
(* maximum.                                                                  *)
LEMMA GetRow ==
  ASSUME DbType(db), NEW c \in Convs
  PROVE  /\ GetUserConversationRow(db, me, c).err = Nil <=> HasRow(c)
         /\ HasRow(c) => (CHOOSE x \in GetUserConversationRow(db, me, c).val : TRUE)
                           = [uc |-> Row(c), convMax |-> ConvMax(c)]
  <1>1. c \in DOMAIN db.convs BY DEF DbType, ConvsType
  <1>2. CASE HasRow(c)
    <2>1. getUserConversationRow(db.ucs, db.convs, me, c) = {[uc |-> Row(c), convMax |-> ConvMax(c)]}
      <3>1. At(db.ucs, <<me, c>>) = {Row(c)} /\ At(db.convs, c) = {db.convs[c]}
        BY <1>1, <1>2 DEF At, HasRow, Row
      <3> QED BY <3>1, SMTT(30) DEF getUserConversationRow, ConvMax
    <2>2. GetUserConversationRow(db, me, c) = Returns(db, {[uc |-> Row(c), convMax |-> ConvMax(c)]})
      BY <2>1 DEF GetUserConversationRow, One
    <2>3. /\ GetUserConversationRow(db, me, c).err = Nil
          /\ GetUserConversationRow(db, me, c).val = {[uc |-> Row(c), convMax |-> ConvMax(c)]}
      BY <2>2, SMTT(30) DEF Returns, Nil, Nil
    <2> QED BY <1>2, <2>3, TheOne
  <1>3. CASE ~HasRow(c)
    <2>1. getUserConversationRow(db.ucs, db.convs, me, c) = {}
      <3>1. At(db.ucs, <<me, c>>) = {} BY <1>3 DEF At, HasRow
      <3> QED BY <3>1, SMTT(30) DEF getUserConversationRow
    <2>2. GetUserConversationRow(db, me, c).err = wrap("no_rows")
      BY <2>1 DEF GetUserConversationRow, One, Fails
    <2> QED BY <1>3, <2>2 DEF wrap, Nil
  <1> QED BY <1>2, <1>3

(* MarkRead is a step of the tables. *)
LEMMA MarkReadStep ==
  ASSUME TypeInv, TableInv, TimeInv, NEW c \in Convs, messages[c] \subseteq 1 .. ConvMax(c), markRead(c)
  PROVE  TableStep
  <1>1. DbType(db) /\ clock' = clock /\ moved' = moved /\ cursors[c] \in Nat /\ ConvMax(c) \in Nat /\ messages[c] # {}
    BY RowTypes DEF TypeInv, markRead
  <1> DEFINE seq == CHOOSE s \in messages[c] : \A x \in messages[c] : x <= s
             read == ReadTarget(c, seq)
  <1>2. seq \in Nat
    <2>1. messages[c] \in SUBSET Nat /\ \A x \in messages[c] : x <= ConvMax(c) BY <1>1, SMTT(30)
    <2>2. \E s \in messages[c] : \A x \in messages[c] : x <= s BY <1>1, <2>1, NatMax
    <2> QED BY <2>1, <2>2
  <1>3. db' = MarkRead(db, me, c, read).db /\ MarkRead(db, me, c, read).err = Nil BY DEF markRead
  <1>4. read \in Nat BY <1>1, <1>2 DEF ReadTarget
  <1> HIDE DEF read
  <1>5. HasRow(c) BY <1>1, <1>3, GetRow DEF MarkRead, Fails, Nil
  <1>6. Row(c).max \in Nat /\ Top(c) \in Nat BY <1>1, <1>5, RowTypes
  <1>7. PICK row : row = GetUserConversationRow(db, me, c) OBVIOUS
  <1>8. PICK r : r = [uc |-> Row(c), convMax |-> ConvMax(c)] OBVIOUS
  <1>9. (CHOOSE x \in row.val : TRUE) = r BY <1>1, <1>5, <1>7, <1>8, GetRow
  <1> DEFINE target == VisibleRange(r.uc, r.convMax, 1, read)[2]
  <1>10. target \in Nat
    <2>1. r.uc = Row(c) /\ r.convMax = ConvMax(c) BY <1>8
    <2>2. VisibleMax(r.uc, r.convMax) = Top(c) BY <2>1 DEF Top
    <2>3. target = IF read < VisibleMax(r.uc, r.convMax) THEN read ELSE VisibleMax(r.uc, r.convMax)
      BY DEF VisibleRange
    <2> QED BY <1>4, <1>6, <2>2, <2>3
  <1>11. db' = db \/ db' = AdvanceReadSeq(db, me, c, target).db
    BY <1>3, <1>7, <1>9 DEF MarkRead, Fails, Returns
  <1> HIDE DEF target
  <1>12. CASE db' = db
    <2>1. \A x \in Convs : SameRow(x) BY <1>12 DEF SameRow, HasRow, Row, IsMember
    <2> QED BY <1>1, <1>12, <2>1, TableFromRows
  <1>13. CASE db' = AdvanceReadSeq(db, me, c, target).db
    <2> DEFINE t == [k \in DOMAIN db.ucs |-> IF k = <<me, c>> THEN [db.ucs[k] EXCEPT !.read = Larger(@, target)] ELSE db.ucs[k]]
    <2>1. db' = SetUcs(db, t) BY <1>1, <1>10, <1>13, AdvanceReadSeqOp
    <2>2. UcsType(db.ucs) BY <1>1 DEF DbType
    <2>3. \A k \in DOMAIN t : /\ t[k] \in UcRow /\ t[k].min = db.ucs[k].min /\ t[k].max = db.ucs[k].max
                              /\ t[k].updated = db.ucs[k].updated
      <3> SUFFICES ASSUME NEW k \in DOMAIN db.ucs
                   PROVE  /\ t[k] \in UcRow /\ t[k].min = db.ucs[k].min /\ t[k].max = db.ucs[k].max
                          /\ t[k].updated = db.ucs[k].updated
        OBVIOUS
      <3>1. PICK u \in UcRow : u = db.ucs[k] BY <2>2 DEF UcsType
      <3>2. Larger(u.read, target) \in Nat BY <1>10, UcExcept, LargerType
      <3>3. t[k] = [u EXCEPT !.read = Larger(u.read, target)] \/ t[k] = u BY <3>1
      <3>4. PICK n \in Nat : n = Larger(u.read, target) BY <3>2
      <3>5. PICK v : v = [u EXCEPT !.read = n] OBVIOUS
      <3>6. v \in UcRow /\ v.min = u.min /\ v.max = u.max /\ v.updated = u.updated BY <3>5, SMTT(30) DEF UcRow
      <3>7. t[k] = v \/ t[k] = u BY <3>3, <3>4, <3>5
      <3> HIDE DEF t
      <3> QED BY <3>1, <3>6, <3>7
    <2>4. DOMAIN t = DOMAIN db.ucs /\ t = [k \in DOMAIN t |-> t[k]] OBVIOUS
    <2> HIDE DEF t
    <2>5. UcsType(t) BY <2>2, <2>3, <2>4 DEF UcsType
    <2>6. /\ DbType(SetUcs(db, t)) /\ SetUcs(db, t).convs = db.convs /\ SetUcs(db, t).msgs = db.msgs
          /\ SetUcs(db, t).ucs = t /\ SetUcs(db, t).members = db.members
      BY <1>1, <2>5, SetUcsLemma
    <2>7. DbType(db') /\ db'.convs = db.convs /\ db'.msgs = db.msgs /\ db'.ucs = t /\ db'.members = db.members
      BY <2>1, <2>6, SMTT(30)
    <2>8. \A x \in Convs : SameRow(x) BY <2>3, <2>4, <2>7 DEF SameRow, HasRow, Row, IsMember
    <2> QED BY <1>1, <2>7, <2>8, TableFromRows
  <1> QED BY <1>11, <1>12, <1>13

(* A frame put on the socket carries a seq the row shows. *)
LEMMA PushesFrames ==
  ASSUME NEW c \in Convs, NEW seq \in Nat, Pushes(c, seq), DbType(db'), ConvMax(c)' = seq
  PROVE  \/ frames' = frames
         \/ \E kind \in {"push", "resync"} : frames' = Append(frames, <<kind, c, seq>>) /\ HasRow(c)' /\ seq <= Top(c)'
  <1>1. CASE ~up \/ VisibleOwners(db', c, {me}, seq).val = {} BY <1>1 DEF Pushes
  <1>2. CASE VisibleOwners(db', c, {me}, seq).val # {}
    <2>1. VisibleOwners(db', c, {me}, seq).val = visibleOwners(db'.ucs, c, {me}, seq)
      BY DEF VisibleOwners, Returns
    <2>2. \E u \in At(db'.ucs, <<me, c>>) : u.min <= seq /\ (u.max = 0 \/ seq <= u.max)
      BY <1>2, <2>1 DEF visibleOwners
    <2>3. HasRow(c)' /\ (Row(c)'.max = 0 \/ seq <= Row(c)'.max) BY <2>2 DEF At, HasRow, Row
    <2>4. Row(c)'.max \in Nat BY <2>3, RowTypesNext
    <2>5. seq <= Top(c)' BY <2>3, <2>4, SMTT(30) DEF Top, VisibleMax
    <2>6. \/ frames' = frames
          \/ \E kind \in {"push", "resync"} : frames' = Append(frames, <<kind, c, seq>>)
      BY <1>2 DEF Pushes
    <2> QED BY <2>3, <2>5, <2>6
  <1> QED BY <1>1, <1>2

-----------------------------------------------------------------------------
(* The rows of a page request. *)

(* A sequence is a function on its indices. *)
LEMMA SeqParts ==
  ASSUME NEW T, NEW s \in Seq(T)
  PROVE  Len(s) \in Nat /\ DOMAIN s = 1 .. Len(s) /\ s \in [1 .. Len(s) -> T]
  BY SMTT(30)

(* Descending enumerates a finite set against the order. *)
LEMMA DescendingOrder ==
  ASSUME NEW S \in SUBSET Pairs, IsFiniteSet(S)
  PROVE  /\ Cardinality(S) \in Nat
         /\ Descending(S) \in [1 .. Cardinality(S) -> S]
         /\ \A i, j \in 1 .. Cardinality(S) : i < j => Precedes(Descending(S)[j], Descending(S)[i])
         /\ \A x \in S : \E i \in 1 .. Cardinality(S) : Descending(S)[i] = x
  <1> DEFINE n == Cardinality(S)
             s == Descending(S)
  <1>1. n \in Nat BY RankOnto
  <1>2. \A i \in 1 .. n : s[i] \in S /\ Rank(S, s[i]) = n - i
    <2> SUFFICES ASSUME NEW i \in 1 .. n PROVE s[i] \in S /\ Rank(S, s[i]) = n - i OBVIOUS
    <2>1. n - i \in 0 .. n - 1 BY <1>1, SMTT(30)
    <2>2. \E x \in S : Rank(S, x) = n - i BY <2>1, RankOnto
    <2>3. s[i] = CHOOSE x \in S : Rank(S, x) = n - i BY DEF Descending
    <2> QED BY <2>2, <2>3
  <1>3. s \in [1 .. n -> S] BY <1>2 DEF Descending
  <1>4. \A i, j \in 1 .. n : i < j => Precedes(s[j], s[i])
    <2> SUFFICES ASSUME NEW i \in 1 .. n, NEW j \in 1 .. n, i < j PROVE Precedes(s[j], s[i]) OBVIOUS
    <2>0. s[i] \in S /\ s[j] \in S /\ Rank(S, s[i]) = n - i /\ Rank(S, s[j]) = n - j BY <1>2
    <2>1. s[i] # s[j]
      <3> HIDE DEF s, n
      <3> QED BY <2>0, <1>1, SMTT(30)
    <2>2. Precedes(s[i], s[j]) => FALSE
      <3> SUFFICES ASSUME Precedes(s[i], s[j]) PROVE FALSE OBVIOUS
      <3>1. Rank(S, s[i]) < Rank(S, s[j]) BY <2>0, RankGrows
      <3> HIDE DEF s, n
      <3> QED BY <2>0, <3>1, <1>1, SMTT(30)
    <2> QED BY <2>0, <2>1, <2>2, PrecedesOrder
  <1>5. \A x \in S : \E i \in 1 .. n : s[i] = x
    <2> SUFFICES ASSUME NEW x \in S PROVE \E i \in 1 .. n : s[i] = x OBVIOUS
    <2>1. Rank(S, x) \in 0 .. n - 1 BY RankOnto
    <2>2. PICK k \in 1 .. n : n - k = Rank(S, x)
      <3>1. n - Rank(S, x) \in 1 .. n /\ n - (n - Rank(S, x)) = Rank(S, x)
        <4> HIDE DEF n
        <4> QED BY <2>1, <1>1, SMTT(30)
      <3> QED BY <3>1
    <2>3. s[k] \in S /\ Rank(S, s[k]) = Rank(S, x) BY <2>2, <1>2
    <2>4. \A y, z \in S : Rank(S, y) = Rank(S, z) => y = z BY RankOnto
    <2>5. s[k] = x BY <2>3, <2>4
    <2> QED BY <2>2, <2>5
  <1> QED BY <1>1, <1>3, <1>4, <1>5

Fewer(a, b) == IF a < b THEN a ELSE b

(* A function on 1..m is a sequence of length m. *)
LEMMA IsList ==
  ASSUME NEW T, NEW m \in Nat, NEW s \in [1 .. m -> T]
  PROVE  s \in Seq(T) /\ Len(s) = m
  <1>1. s \in Seq(T) BY SMTT(30)
  <1>2. Len(s) = m BY <1>1, SMTT(30)
  <1> QED BY <1>1, <1>2

(* Limit is a prefix. *)
LEMMA LimitFacts ==
  ASSUME NEW T, NEW s \in Seq(T), NEW n \in Nat
  PROVE  /\ Limit(s, n) \in Seq(T)
         /\ Len(Limit(s, n)) = Fewer(Len(s), n)
         /\ DOMAIN Limit(s, n) = 1 .. Len(Limit(s, n))
         /\ \A i \in DOMAIN Limit(s, n) : i \in DOMAIN s /\ i \in 1 .. Len(s) /\ Limit(s, n)[i] = s[i]
  <1> DEFINE m == Len(s)
             k == IF m < n THEN m ELSE n
  <1>1. s \in Seq(T) OBVIOUS
  <1>2. Len(s) = m /\ m \in Nat /\ DOMAIN s = 1 .. m BY SeqParts
  <1> HIDE DEF m
  <1>3. k \in Nat /\ k <= m BY <1>2, SMTT(30)
  <1>4. Limit(s, n) = SubSeq(s, 1, k) BY <1>2 DEF Limit
  <1> HIDE DEF k
  <1>5. \A i \in 1 .. k : s[i] \in T /\ i \in 1 .. m BY <1>2, <1>3, SMTT(30)
  <1>6. SubSeq(s, 1, k) \in Seq(T) BY <1>1, <1>2, <1>3, <1>5, SMTT(30)
  <1>7. Len(SubSeq(s, 1, k)) = k BY <1>1, <1>2, <1>3, SMTT(30)
  <1>8. \A i \in 1 .. k : SubSeq(s, 1, k)[i] = s[i] BY <1>1, <1>2, <1>3, SMTT(30)
  <1>9. DOMAIN SubSeq(s, 1, k) = 1 .. k BY <1>6, <1>7, SeqParts
  <1> QED BY <1>1, <1>2, <1>4, <1>5, <1>6, <1>7, <1>8, <1>9 DEF k, Fewer

\* The rows a page request finds, as their places in the order.
Listed(cur) == {s \in {Place(c) : c \in {x \in Convs : HasRow(x)}} : Precedes(s, cur)}

(* The places a page request finds are finitely many, one per row before the *)
(* cursor.                                                                   *)
LEMMA ListedFacts ==
  ASSUME DbType(db), clock \in Nat, NEW cur
  PROVE  /\ Listed(cur) \in SUBSET Pairs /\ IsFiniteSet(Listed(cur))
         /\ \A s \in Listed(cur) : s[2] \in Convs /\ HasRow(s[2]) /\ s = Place(s[2]) /\ Precedes(s, cur)
         /\ \A c \in Convs : HasRow(c) /\ Precedes(Place(c), cur) => Place(c) \in Listed(cur)
  <1> DEFINE C == {x \in Convs : HasRow(x)}
             f == [c \in C |-> Place(c)]
  <1>1. IsFiniteSet(C) BY WebSyncAssumption, FS_Subset
  <1>2. IsFiniteSet({Place(c) : c \in C})
    <2>1. f \in Surjection(C, {Place(c) : c \in C}) BY DEF Surjection
    <2> QED BY <1>1, <2>1, FS_Surjection
  <1>3. \A c \in C : Place(c) \in Pairs /\ Place(c)[2] = c BY PlaceType
  <1>4. Listed(cur) \subseteq {Place(c) : c \in C} BY DEF Listed
  <1>5. IsFiniteSet(Listed(cur)) BY <1>2, <1>4, FS_Subset
  <1> QED BY <1>3, <1>5 DEF Listed

(* The rows a page request finds, newest first. *)
LEMMA ListRows ==
  ASSUME DbType(db), clock \in Nat, NEW cur, NEW n
  PROVE  (CHOOSE r \in ListUserConversations(db, me, cur, n).val : TRUE)
           = Limit([i \in 1 .. Cardinality(Listed(cur)) |-> ListedRow(Descending(Listed(cur))[i][2])], n)
  <1> DEFINE of == {k \in DOMAIN db.ucs : k[1] = me /\ k[2] \in DOMAIN db.convs}
             S == {s \in {<<db.ucs[k].updated, k[2]>> : k \in of} : Precedes(s, cur)}
             sorted == Descending(S)
             rows == Limit([i \in DOMAIN sorted |->
                 LET c == sorted[i][2]
                 IN  [id |-> c, uc |-> db.ucs[<<me, c>>], convMax |-> db.convs[c].max]], n)
  <1>1. S = Listed(cur)
    <2>1. DOMAIN db.convs = Convs /\ DOMAIN db.ucs \subseteq {me} \X Convs BY DEF DbType, ConvsType, UcsType
    <2>2. \A k \in of : k[2] \in Convs /\ HasRow(k[2]) /\ k = <<me, k[2]>>
      <3>1. \A k \in {me} \X Convs : k = <<me, k[2]>> BY SMTT(30)
      <3> QED BY <2>1, <3>1 DEF HasRow
    <2>3. \A k \in of : <<db.ucs[k].updated, k[2]>> = Place(k[2]) BY <2>2 DEF Place, Row
    <2>4. \A c \in Convs : HasRow(c) => <<me, c>> \in of /\ <<db.ucs[<<me, c>>].updated, c>> = Place(c)
      BY <2>1, SMTT(30) DEF HasRow, Place, Row
    <2>5. {<<db.ucs[k].updated, k[2]>> : k \in of} = {Place(c) : c \in {x \in Convs : HasRow(x)}}
      <3> HIDE DEF of
      <3>1. ASSUME NEW s \in {<<db.ucs[k].updated, k[2]>> : k \in of} PROVE s \in {Place(c) : c \in {x \in Convs : HasRow(x)}}
        BY <2>2, <2>3
      <3>2. ASSUME NEW c \in Convs, HasRow(c) PROVE Place(c) \in {<<db.ucs[k].updated, k[2]>> : k \in of}
        <4>1. PICK k \in of : k = <<me, c>> BY <2>4, <3>2
        <4>2. k[2] = c /\ <<db.ucs[k].updated, c>> = Place(c) BY <2>4, <3>2, <4>1
        <4> QED BY <4>2
      <3> QED BY <3>1, <3>2
    <2> HIDE DEF of
    <2> QED BY <2>5 DEF Listed
  <1>2. (CHOOSE r \in ListUserConversations(db, me, cur, n).val : TRUE) = rows
    <2>1. listUserConversations(db.ucs, db.convs, me, cur, n) = rows BY Bridge
    <2> HIDE DEF rows
    <2> QED BY <2>1, TheOne DEF ListUserConversations, Returns
  <1>3. DOMAIN Descending(Listed(cur)) = 1 .. Cardinality(Listed(cur)) BY DEF Descending
  <1>4. rows = Limit([i \in DOMAIN Descending(Listed(cur)) |-> ListedRow(Descending(Listed(cur))[i][2])], n)
    <2> HIDE DEF S
    <2> QED BY <1>1 DEF ListedRow, Row, ConvMax
  <1> QED BY <1>2, <1>3, <1>4

-----------------------------------------------------------------------------
(* Pages and pulls. *)

(* A page holds at least one row. *)
LEMMA PageLimitType ==
  ASSUME NEW limit \in Nat, NEW pm \in Nat
  PROVE  PageLimit(limit, pm) \in Nat /\ PageLimit(limit, pm) >= 1
  BY SMTT(30) DEF PageLimit, Larger

(* A page is the first k of the rows that precede the cursor; it names a     *)
(* next page unless it holds them all.                                       *)
LEMMA PageShape ==
  ASSUME DbType(db), clock \in Nat, NEW at, NEW limit \in Nat, NEW pm \in Nat
  PROVE  LET p == ListPage(db, me, at, limit, pm)
             L == Listed(DecodeCursor(at))
         IN  \E k \in Nat :
               /\ k <= Cardinality(L) /\ p.rows \in [1 .. k -> {ListedRow(c) : c \in Convs}]
               /\ p.rows \in Seq({ListedRow(c) : c \in Convs}) /\ Len(p.rows) = k
               /\ \A i \in 1 .. k : p.rows[i] = ListedRow(Descending(L)[i][2])
               /\ \/ p.next = {} /\ k = Cardinality(L)
                  \/ p.next = EncodeCursor(ListedRow(Descending(L)[k][2])) /\ k >= 1
  <1> DEFINE L == Listed(DecodeCursor(at))
             D == Descending(L)
             card == Cardinality(L)
             n == PageLimit(limit, pm)
             T == {ListedRow(c) : c \in Convs}
             all == [i \in 1 .. card |-> ListedRow(D[i][2])]
             rows == Limit(all, n + 1)
             p == ListPage(db, me, at, limit, pm)
  <1>1. /\ card \in Nat /\ D \in [1 .. card -> L]
    BY ListedFacts, DescendingOrder
  <1>2. n \in Nat /\ n >= 1 /\ n + 1 \in Nat
    <2>1. n \in Nat /\ n >= 1 BY PageLimitType
    <2> HIDE DEF n
    <2> QED BY <2>1, SMTT(30)
  <1>3. all \in [1 .. card -> T]
    <2>1. \A i \in 1 .. card : D[i][2] \in Convs BY <1>1, ListedFacts
    <2> HIDE DEF D
    <2> QED BY <2>1
  <1>4. (CHOOSE r \in ListUserConversations(db, me, DecodeCursor(at), n + 1).val : TRUE) = rows BY ListRows
  <1>5. p = IF Len(rows) <= n THEN [rows |-> rows, next |-> {}]
            ELSE [rows |-> Limit(rows, n), next |-> EncodeCursor(rows[n])]
    BY <1>4 DEF ListPage
  <1>6. \A i \in 1 .. card : all[i] = ListedRow(D[i][2]) OBVIOUS
  <1> HIDE DEF D, all, n, T, p, L
  <1>7. /\ rows \in Seq(T) /\ Len(rows) = Fewer(card, n + 1)
        /\ DOMAIN rows = 1 .. Len(rows)
        /\ \A i \in DOMAIN rows : i \in 1 .. card /\ rows[i] = all[i]
    <2>1. all \in Seq(T) /\ Len(all) = card BY <1>1, <1>3, IsList
    <2>2. n + 1 \in Nat BY <1>2
    <2> QED BY <2>1, <2>2, LimitFacts
  <1> HIDE DEF rows
  <1>8. rows \in [1 .. Len(rows) -> T] BY <1>7, SeqParts
  <1>9. \E k \in Nat : /\ k <= card /\ p.rows \in [1 .. k -> T]
                       /\ p.rows \in Seq(T) /\ Len(p.rows) = k
                       /\ \A i \in 1 .. k : p.rows[i] = all[i]
                       /\ \/ p.next = {} /\ k = card
                          \/ p.next = EncodeCursor(all[k]) /\ k >= 1
    <2>1. CASE Len(rows) <= n
      <3>1. p.rows = rows /\ p.next = {} BY <1>5, <2>1
      <3>2. Len(rows) = card BY <1>1, <1>2, <1>7, <2>1, SMTT(30) DEF Fewer
      <3>3. \A i \in 1 .. card : rows[i] = all[i] BY <1>7, <3>2
      <3>4. card <= card BY <1>1, SMTT(30)
      <3> QED BY <1>1, <1>7, <1>8, <3>1, <3>2, <3>3, <3>4
    <2>2. CASE ~(Len(rows) <= n)
      <3>1. p.rows = Limit(rows, n) /\ p.next = EncodeCursor(rows[n]) BY <1>5, <2>2
      <3>2. Len(rows) = n + 1 /\ n <= card BY <1>1, <1>2, <1>7, <2>2, SMTT(30) DEF Fewer
      <3>3. /\ Limit(rows, n) \in Seq(T) /\ Len(Limit(rows, n)) = Fewer(n + 1, n)
            /\ \A i \in 1 .. Len(Limit(rows, n)) : i \in 1 .. n + 1 /\ Limit(rows, n)[i] = rows[i]
        <4>1. /\ Limit(rows, n) \in Seq(T) /\ Len(Limit(rows, n)) = Fewer(Len(rows), n)
              /\ DOMAIN Limit(rows, n) = 1 .. Len(Limit(rows, n))
              /\ \A i \in DOMAIN Limit(rows, n) : i \in 1 .. Len(rows) /\ Limit(rows, n)[i] = rows[i]
          BY <1>2, <1>7, LimitFacts
        <4> QED BY <3>2, <4>1
      <3>4. Len(Limit(rows, n)) = n BY <1>2, <3>3, SMTT(30) DEF Fewer
      <3>5. \A i \in 1 .. n : Limit(rows, n)[i] = all[i] BY <1>7, <3>2, <3>3, <3>4
      <3>6. n \in 1 .. n + 1 BY <1>2, SMTT(30)
      <3>7. rows[n] = all[n] BY <1>7, <3>2, <3>6
      <3>8. Limit(rows, n) \in [1 .. n -> T] BY <3>3, <3>4, SeqParts
      <3> QED BY <1>2, <3>1, <3>2, <3>3, <3>4, <3>5, <3>7, <3>8
    <2> QED BY <2>1, <2>2
  <1>10. PICK k \in Nat : /\ k <= card /\ p.rows \in [1 .. k -> T]
                          /\ p.rows \in Seq(T) /\ Len(p.rows) = k
                          /\ \A i \in 1 .. k : p.rows[i] = all[i]
                          /\ \/ p.next = {} /\ k = card
                             \/ p.next = EncodeCursor(all[k]) /\ k >= 1
    BY <1>9
  <1>11. \A i \in 1 .. k : i \in 1 .. card BY <1>1, <1>10, SMTT(30)
  <1>12. \A i \in 1 .. k : p.rows[i] = ListedRow(D[i][2]) BY <1>6, <1>10, <1>11
  <1>13. k >= 1 => k \in 1 .. k BY SMTT(30)
  <1>14. \/ p.next = {} /\ k = card
         \/ p.next = EncodeCursor(ListedRow(D[k][2])) /\ k >= 1
    BY <1>6, <1>10, <1>11, <1>13
  <1> QED BY <1>10, <1>12, <1>14 DEF D, T, p, L

(* Encoding a row's time in milliseconds and decoding it again gives the     *)
(* row's place: nothing is lost, the stamps being whole milliseconds.        *)
LEMMA CursorRoundTrip ==
  ASSUME DbType(db), clock \in Nat, TimeInv, NEW c \in Convs, HasRow(c)
  PROVE  /\ EncodeCursor(ListedRow(c)) = {<<Row(c).updated \div PerMs, c>>}
         /\ DecodeCursor(EncodeCursor(ListedRow(c))) = Place(c)
         /\ Row(c).updated \div PerMs \in Nat
         /\ (Row(c).updated \div PerMs) * PerMs <= NowMs(clock)
  <1>1. EncodeCursor(ListedRow(c)) = {<<Row(c).updated \div PerMs, c>>}
    BY DEF EncodeCursor, ListedRow
  <1>2. PICK e : e = <<Row(c).updated \div PerMs, c>> OBVIOUS
  <1>3. DecodeCursor({e}) = <<e[1] * PerMs, e[2]>> BY TheOne DEF DecodeCursor
  <1>4. (Row(c).updated \div PerMs) * PerMs = Row(c).updated /\ Row(c).updated <= NowMs(clock)
    BY DEF TimeInv, Stamp
  <1>5. Place(c) = <<Row(c).updated, c>> BY DEF Place
  <1>6. DecodeCursor({e}) = Place(c) BY <1>2, <1>3, <1>4, <1>5
  <1>7. Row(c).updated \div PerMs \in Nat
    <2>1. Row(c).updated \in Nat BY RowTypes
    <2> QED BY <2>1, WebSyncAssumption, SMTT(30)
  <1> QED BY <1>1, <1>2, <1>4, <1>6, <1>7

(* Every page has the properties of IsPage. *)
LEMMA PageFacts ==
  ASSUME DbType(db), clock \in Nat, TimeInv, NEW at, DecodeCursor(at) \in Pairs, NEW limit \in Nat, NEW pm \in Nat
  PROVE  IsPage(ListPage(db, me, at, limit, pm), DecodeCursor(at))
  <1> DEFINE p == ListPage(db, me, at, limit, pm)
             cur == DecodeCursor(at)
             L == Listed(cur)
             D == Descending(L)
             card == Cardinality(L)
  <1> SUFFICES IsPage(p, cur) OBVIOUS
  <1>1. PICK k \in Nat : /\ k <= card /\ p.rows \in [1 .. k -> {ListedRow(c) : c \in Convs}]
                         /\ p.rows \in Seq({ListedRow(c) : c \in Convs}) /\ Len(p.rows) = k
                         /\ \A i \in 1 .. k : p.rows[i] = ListedRow(D[i][2])
                         /\ \/ p.next = {} /\ k = card
                            \/ p.next = EncodeCursor(ListedRow(D[k][2])) /\ k >= 1
    BY PageShape
  <1> HIDE DEF p
  <1>2. /\ card \in Nat /\ D \in [1 .. card -> L] /\ L \in SUBSET Pairs
        /\ \A i, j \in 1 .. card : i < j => Precedes(D[j], D[i])
        /\ \A x \in L : \E i \in 1 .. card : D[i] = x
        /\ \A s \in L : s[2] \in Convs /\ HasRow(s[2]) /\ s = Place(s[2]) /\ Precedes(s, cur)
        /\ \A c \in Convs : HasRow(c) /\ Precedes(Place(c), cur) => Place(c) \in L
        /\ cur \in Pairs
    BY ListedFacts, DescendingOrder
  <1> HIDE DEF D, L, cur
  <1>3. DOMAIN p.rows = 1 .. k /\ \A i \in 1 .. k : i \in 1 .. card BY <1>1, <1>2, SMTT(30)
  <1>4. ASSUME NEW i \in 1 .. k
        PROVE  /\ p.rows[i].id = D[i][2] /\ p.rows[i].uc = Row(D[i][2]) /\ p.rows[i].convMax = ConvMax(D[i][2])
               /\ D[i] \in L /\ D[i][2] \in Convs /\ HasRow(D[i][2]) /\ D[i] = Place(D[i][2]) /\ Precedes(D[i], cur)
    <2>1. p.rows[i] = ListedRow(D[i][2]) BY <1>1
    <2>2. p.rows[i].id = D[i][2] /\ p.rows[i].uc = Row(D[i][2]) /\ p.rows[i].convMax = ConvMax(D[i][2])
      BY <2>1, SMTT(30) DEF ListedRow
    <2>3. D[i] \in L BY <1>2, <1>3
    <2> QED BY <1>2, <2>2, <2>3
  <1>5. ASSUME NEW i \in 1 .. k, NEW j \in 1 .. k, p.rows[i].id = p.rows[j].id PROVE i = j
    <2>1. D[i] = D[j] /\ D[i] \in Pairs
      <3>1. D[i][2] = D[j][2] /\ D[i] = Place(D[i][2]) /\ D[j] = Place(D[j][2]) BY <1>4, <1>5
      <3>2. Place(D[i][2]) = Place(D[j][2]) BY <3>1
      <3> QED BY <1>2, <1>4, <3>1, <3>2
    <2>2. ~Precedes(D[i], D[j]) /\ ~Precedes(D[j], D[i]) BY <2>1, PrecedesOrder
    <2>3. i \in 1 .. card /\ j \in 1 .. card BY <1>3
    <2>4. ~(i < j) /\ ~(j < i) BY <1>2, <2>2, <2>3
    <2> QED BY <2>4, SMTT(30)
  <1>50. \A i \in DOMAIN p.rows :
           /\ p.rows[i].id \in Convs /\ HasRow(p.rows[i].id) /\ Precedes(Place(p.rows[i].id), cur)
           /\ p.rows[i].uc = Row(p.rows[i].id) /\ p.rows[i].convMax = ConvMax(p.rows[i].id)
    BY <1>3, <1>4
  <1>51. \A i, j \in DOMAIN p.rows : p.rows[i].id = p.rows[j].id => i = j BY <1>3, <1>5
  <1>6. CASE p.next = {} /\ k = card
    <2>1. ASSUME NEW c \in Convs, HasRow(c), Precedes(Place(c), cur)
          PROVE  \E i \in 1 .. k : p.rows[i].id = c
      <3>1. PICK i \in 1 .. k : D[i] = Place(c) BY <1>2, <1>6, <2>1
      <3>2. Place(c)[2] = c BY PlaceType
      <3> QED BY <1>4, <3>1, <3>2
    <2> QED BY <1>1, <1>3, <1>50, <1>51, <1>6, <2>1 DEF IsPage
  <1>7. CASE p.next = EncodeCursor(ListedRow(D[k][2])) /\ k >= 1
    <2>1. k \in 1 .. k BY <1>7, SMTT(30)
    <2> DEFINE last == D[k][2]
    <2>2. last \in Convs /\ HasRow(last) /\ D[k] = Place(last) /\ D[k] \in Pairs /\ Precedes(D[k], cur) BY <1>2, <1>4, <2>1
    <2> HIDE DEF last
    <2>3. /\ p.next = {<<Row(last).updated \div PerMs, last>>} /\ DecodeCursor(p.next) = D[k]
          /\ Row(last).updated \div PerMs \in Nat /\ (Row(last).updated \div PerMs) * PerMs <= NowMs(clock)
      BY <1>7, <2>2, CursorRoundTrip DEF last
    <2>4. ASSUME NEW x \in p.next
          PROVE x \in Nat \X Convs /\ p.next = {x} /\ x[1] * PerMs <= NowMs(clock) /\ p.rows # <<>>
      <3>1. x = <<Row(last).updated \div PerMs, last>> BY <2>3
      <3>2. p.rows # <<>>
        <4>1. Len(p.rows) = k /\ k # 0 BY <1>1, <1>7, SMTT(30)
        <4> QED BY <4>1, SMTT(30)
      <3> QED BY <2>2, <2>3, <3>1, <3>2
    <2>5. ASSUME NEW c \in Convs, HasRow(c), Precedes(Place(c), cur)
          PROVE  Precedes(Place(c), DecodeCursor(p.next)) \/ \E i \in 1 .. k : p.rows[i].id = c
      <3>1. PICK i \in 1 .. card : D[i] = Place(c) BY <1>2, <2>5
      <3>2. Place(c)[2] = c BY PlaceType
      <3>3. i \in 1 .. k \/ k < i BY <1>2, SMTT(30)
      <3>4. CASE i \in 1 .. k BY <1>4, <3>1, <3>2, <3>4
      <3>5. CASE k < i
        <4>1. k \in 1 .. card BY <1>3, <2>1
        <4> QED BY <1>2, <2>3, <3>1, <3>5, <4>1
      <3> QED BY <3>3, <3>4, <3>5
    <2>6. ASSUME NEW i \in 1 .. k PROVE ~Precedes(Place(p.rows[i].id), DecodeCursor(p.next))
      <3>1. Place(p.rows[i].id) = D[i] /\ D[i] \in Pairs BY <1>2, <1>4
      <3>2. i = k \/ i < k BY SMTT(30)
      <3>3. CASE i = k BY <2>2, <2>3, <3>1, <3>3, PrecedesOrder
      <3>4. CASE i < k
        <4>1. Precedes(D[k], D[i]) BY <1>2, <1>3, <2>1, <3>4
        <4> QED BY <2>2, <2>3, <3>1, <4>1, PrecedesOrder
      <3> QED BY <3>2, <3>3, <3>4
    <2>7. ASSUME NEW c \in Convs, ~Precedes(Place(c), cur) PROVE ~Precedes(Place(c), DecodeCursor(p.next))
      <3>1. Place(c) \in Pairs BY PlaceType
      <3>2. Precedes(Place(c), D[k]) => Precedes(Place(c), cur) BY <1>2, <2>2, <3>1, PrecedesOrder
      <3> QED BY <2>3, <2>7, <3>2
    <2> QED BY <1>1, <1>3, <1>50, <1>51, <2>3, <2>4, <2>5, <2>6, <2>7 DEF IsPage
  <1> QED BY <1>1, <1>6, <1>7

(* A successful Pull answers seqs of the conversation. *)
LEMMA PullFacts ==
  ASSUME DbType(db), TableInv, NEW c \in Convs, NEW begin \in Nat, NEW end \in Nat, NEW limit \in Nat, NEW pm \in Nat,
         Pull(db, me, c, begin, end, limit, pm).err = Nil
  PROVE  LET seqs == Pull(db, me, c, begin, end, limit, pm).val.seqs
         IN  seqs \in Seq(Nat) /\ \A i \in DOMAIN seqs : seqs[i] \in 1 .. ConvMax(c)
  <1> DEFINE a == Pull(db, me, c, begin, end, limit, pm)
             n == PageLimit(limit, pm)
             row == GetUserConversationRow(db, me, c)
             r == CHOOSE x \in row.val : TRUE
             range == VisibleRange(r.uc, r.convMax, begin, end)
             rows == CHOOSE x \in ListMessages(db, c, range[1], range[2], n + 1).val : TRUE
             seqs == [i \in DOMAIN Limit(rows, n) |-> rows[i][1]]
  <1>0. a = IF begin < 1 \/ end < begin THEN Fails(db, "invalid_param")
            ELSE IF row.err # Nil THEN Fails(db, "no_permission")
            ELSE IF range[1] > range[2] THEN Returns(db, [seqs |-> <<>>, more |-> FALSE])
            ELSE Returns(db, [seqs |-> seqs, more |-> Len(rows) > n])
    BY DEF Pull
  <1>1. a.val.seqs = <<>> \/ a.val.seqs = seqs
    <2> HIDE DEF a, n, row, r, range, rows, seqs
    <2>1. a.err = Nil BY DEF a
    <2>2. Fails(db, "invalid_param").err # Nil /\ Fails(db, "no_permission").err # Nil BY DEF Fails, Nil
    <2>3. a = Returns(db, [seqs |-> <<>>, more |-> FALSE]) \/ a = Returns(db, [seqs |-> seqs, more |-> Len(rows) > n])
      BY <1>0, <2>1, <2>2
    <2> QED BY <2>3, SMTT(30) DEF Returns
  <1> HIDE DEF a, range
  <1>2. n \in Nat /\ n + 1 \in Nat
    <2>1. n \in Nat BY PageLimitType
    <2> HIDE DEF n
    <2> QED BY <2>1, SMTT(30)
  <1> HIDE DEF n
  <1> DEFINE S == {m \in DOMAIN db.msgs : m[1] = c /\ m[2] >= range[1] /\ m[2] <= range[2]}
             A == Ascending(S)
             card == Cardinality(S)
             all == [i \in DOMAIN A |-> <<A[i][2], db.msgs[A[i]]>>]
  <1>3. rows = Limit(all, n + 1)
    <2>1. listMessages(db.msgs, c, range[1], range[2], n + 1) = Limit(all, n + 1)
      BY DEF listMessages, Ascending, Rank, Precedes, Limit, Ascending, Rank, Precedes, Limit,
             Cardinality, Cardinality
    <2> HIDE DEF all
    <2> QED BY <2>1, TheOne DEF ListMessages, Returns
  <1> HIDE DEF rows
  <1>4. S \in SUBSET Pairs /\ IsFiniteSet(S) /\ \A m \in S : m[1] = c /\ m[2] \in 1 .. ConvMax(c)
    <2>1. IsFiniteSet(DOMAIN db.msgs) /\ DOMAIN db.msgs \subseteq Convs \X Nat BY DEF DbType, MsgsType
    <2>2. Convs \X Nat \subseteq Pairs BY WebSyncAssumption DEF Pairs
    <2>3. IsFiniteSet(S) BY <2>1, FS_Subset
    <2>4. \A m \in S : m[2] \in Nat /\ 1 <= m[2] /\ m[2] <= ConvMax(c) BY <2>1 DEF TableInv
    <2>5. ConvMax(c) \in Nat BY RowTypes
    <2>6. \A m \in S : m[2] \in 1 .. ConvMax(c)
      <3> HIDE DEF S
      <3> QED BY <2>4, <2>5, SMTT(30)
    <2> QED BY <2>1, <2>2, <2>3, <2>6
  <1> HIDE DEF S
  <1>5. card \in Nat /\ A \in [1 .. card -> S] BY <1>4, AscendingOrder
  <1> HIDE DEF A
  <1> DEFINE T == {<<s, db.msgs[<<c, s>>]>> : s \in 1 .. ConvMax(c)}
             U == {<<m[2], db.msgs[m]>> : m \in S}
  <1>6. all \in [1 .. card -> U] BY <1>5
  <1> HIDE DEF all
  <1>7. rows \in Seq(U) /\ DOMAIN rows = 1 .. Len(rows)
    <2>1. all \in Seq(U) BY <1>5, <1>6, IsList
    <2> QED BY <1>2, <1>3, <2>1, LimitFacts
  <1>8. \A x \in U : x[1] \in 1 .. ConvMax(c) BY <1>4, SMTT(30)
  <1>9. /\ Len(rows) \in Nat /\ rows \in [1 .. Len(rows) -> U] BY <1>7, SeqParts
  <1>10. /\ Limit(rows, n) \in Seq(U) /\ DOMAIN Limit(rows, n) = 1 .. Len(Limit(rows, n))
         /\ \A i \in DOMAIN Limit(rows, n) : i \in 1 .. Len(rows)
    BY <1>2, <1>7, LimitFacts
  <1>11. Len(Limit(rows, n)) \in Nat BY <1>10, SeqParts
  <1>12. \A i \in DOMAIN Limit(rows, n) : rows[i][1] \in 1 .. ConvMax(c) BY <1>8, <1>9, <1>10
  <1> HIDE DEF U
  <1>13. CASE a.val.seqs = <<>> BY <1>13, SMTT(30) DEF a
  <1>14. CASE a.val.seqs = seqs
    <2>1. DOMAIN a.val.seqs = DOMAIN Limit(rows, n) /\ \A i \in DOMAIN a.val.seqs : a.val.seqs[i] \in 1 .. ConvMax(c)
      BY <1>12, <1>14
    <2>2. 1 .. ConvMax(c) \subseteq Nat BY RowTypes, SMTT(30)
    <2>3. a.val.seqs \in [1 .. Len(Limit(rows, n)) -> Nat] BY <1>10, <1>12, <1>14, <2>2
    <2>4. a.val.seqs \in Seq(Nat) BY <1>11, <2>3, IsList
    <2> QED BY <2>1, <2>4 DEF a
  <1> QED BY <1>1, <1>13, <1>14

(* A round's cursor decodes to a place. *)
LEMMA CursorType ==
  ASSUME TypeInv, NEW r \in round
  PROVE  DecodeCursor(r.at) \in Pairs
  <1>1. \A x \in r.at : x \in Nat \X Convs /\ r.at = {x} BY DEF TypeInv, RoundType
  <1>2. CASE r.at = {} BY <1>2, WebSyncAssumption, SMTT(30) DEF DecodeCursor, Pairs
  <1>3. CASE r.at # {}
    <2>1. PICK x : x \in Nat \X Convs /\ r.at = {x} BY <1>1, <1>3
    <2>2. DecodeCursor(r.at) = <<x[1] * PerMs, x[2]>> BY <2>1, TheOne DEF DecodeCursor
    <2>3. x[1] \in Nat /\ x[2] \in Nat BY <2>1, WebSyncAssumption
    <2>4. x[1] * PerMs \in Nat BY <2>3, WebSyncAssumption, SMTT(30)
    <2> QED BY <2>2, <2>3, <2>4, SMTT(30) DEF Pairs
  <1> QED BY <1>2, <1>3

-----------------------------------------------------------------------------
(* Steps of the tables. *)

(* A step of the tables leaves filled what was filled: the lower bound of a  *)
(* row only moves when it is joined again, above the maximum.                *)
LEMMA FilledKept ==
  ASSUME DbType(db), TableStep, got' = got, NEW c \in Convs, NEW m \in Nat, Filled(c, m)
  PROVE  Filled(c, m)'
  <1>1. ConvMax(c) \in Nat /\ ConvMax(c)' \in Nat /\ ConvMax(c) <= ConvMax(c)'
    BY RowTypes, RowTypesNext DEF TableStep
  <1>2. m <= ConvMax(c) /\ m <= ConvMax(c)'
    <2>1. m <= ConvMax(c) BY DEF Filled
    <2> QED BY <1>1, <2>1, SMTT(30)
  <1>3. ASSUME NEW s \in 1 .. m, HasRow(c)', Row(c)'.min <= s PROVE s \in got[c]
    <2>1. CASE HasRow(c) /\ Row(c).min = Row(c)'.min BY <1>3, <2>1 DEF Filled
    <2>2. CASE Row(c)'.min = ConvMax(c) + 1
      <3>1. ConvMax(c) + 1 <= s BY <1>3, <2>2
      <3> QED BY <1>1, <1>2, <3>1, SMTT(30)
    <2> QED BY <1>3, <2>1, <2>2 DEF TableStep
  <1> QED BY <1>2, <1>3 DEF Filled

(* A step of the tables hides no seq that the row showed. *)
LEMMA TopKept ==
  ASSUME DbType(db), TableStep, NEW c \in Convs, NEW s \in Nat, s <= ConvMax(c), HasRow(c) => s <= Top(c)
  PROVE  s <= ConvMax(c)' /\ (HasRow(c)' => s <= Top(c)')
  <1>1. ConvMax(c) \in Nat /\ ConvMax(c)' \in Nat /\ ConvMax(c) <= ConvMax(c)'
    BY RowTypes, RowTypesNext DEF TableStep
  <1>2. s <= ConvMax(c)' BY <1>1, SMTT(30)
  <1> QED BY <1>2 DEF TableStep

(* A step of the tables leaves a bound of an older answer usable. *)
LEMMA BoundKept ==
  ASSUME DbType(db), TableStep, NEW b \in Item, BoundOk(b)
  PROVE  BoundOk(b)'
  <1> DEFINE c == b.id
  <1>1. c \in Convs /\ b.min \in Nat /\ b.max \in Nat BY SMTT(30) DEF Item
  <1>2. ConvMax(c) \in Nat /\ ConvMax(c)' \in Nat /\ ConvMax(c) <= ConvMax(c)'
    BY <1>1, RowTypes, RowTypesNext DEF TableStep
  <1>3. b.max <= ConvMax(c) /\ b.min <= ConvMax(c) + 1 BY DEF BoundOk
  <1>4. b.max <= ConvMax(c)' /\ b.min <= ConvMax(c)' + 1
    <2> HIDE DEF c
    <2> QED BY <1>1, <1>2, <1>3, SMTT(30)
  <1>5. HasRow(c)' => b.min <= Row(c)'.min
    <2>1. HasRow(c)' => (HasRow(c) /\ Row(c).min = Row(c)'.min) \/ Row(c)'.min = ConvMax(c) + 1 BY <1>1 DEF TableStep
    <2>2. HasRow(c) => b.min <= Row(c).min BY DEF BoundOk
    <2> QED BY <1>3, <2>1, <2>2
  <1> QED BY <1>4, <1>5 DEF BoundOk

(* A step of the tables keeps GapInv. *)
LEMMA GapKept ==
  ASSUME IInv, TableStep, UNCHANGED <<cursors, stored, round, got>>,
         \A c \in Convs : messages'[c] \subseteq 1 .. ConvMax(c)',
         \A i \in DOMAIN frames' : FrameOk(frames[i])'
  PROVE  GapInv'
  <1>1. /\ DbType(db) /\ cursors \in [Convs -> Nat] /\ stored \in [Convs -> Nat]
        /\ \A r \in round : RoundType(r)
    BY DEF IInv, TypeInv
  <1>2. ASSUME NEW c \in Convs PROVE GapConv(c)'
    <2>1. cursors[c] \in Nat /\ stored[c] \in Nat /\ Filled(c, cursors[c]) /\ Filled(c, stored[c])
      BY <1>1 DEF IInv, GapInv, GapConv
    <2>2. Filled(c, cursors[c])' /\ Filled(c, stored[c])'
      <3>1. PICK m \in Nat : m = cursors[c] BY <2>1
      <3>2. PICK n \in Nat : n = stored[c] BY <2>1
      <3>3. Filled(c, m)' /\ Filled(c, n)' BY <1>1, <2>1, <3>1, <3>2, FilledKept
      <3> QED BY <3>1, <3>2, <3>3 DEF Filled
    <2> QED BY <2>2 DEF GapConv
  <1>3. ASSUME NEW r \in round PROVE GapRound(r)'
    <2>1. GapRound(r) /\ RoundType(r) BY <1>1 DEF IInv, GapInv
    <2>2. r.bounds \in Seq(Item) /\ r.local \in Nat BY <2>1 DEF RoundType
    <2>3. \A k \in DOMAIN r.bounds : r.bounds[k] \in Item BY <2>2, SMTT(30)
    <2>4. \A k \in DOMAIN r.bounds : BoundOk(r.bounds[k])' BY <1>1, <2>1, <2>3, BoundKept DEF GapRound
    <2>5. r.phase \in {"ask", "pull"} => r.range \in DOMAIN r.bounds /\ Filled(r.bounds[r.range].id, r.local)'
      <3> SUFFICES ASSUME r.phase \in {"ask", "pull"}
                   PROVE  r.range \in DOMAIN r.bounds /\ Filled(r.bounds[r.range].id, r.local)'
        OBVIOUS
      <3>1. r.range \in DOMAIN r.bounds /\ Filled(r.bounds[r.range].id, r.local) BY <2>1 DEF GapRound
      <3>2. r.bounds[r.range] \in Item BY <2>3, <3>1
      <3>3. r.bounds[r.range].id \in Convs BY <3>2, SMTT(30) DEF Item
      <3> QED BY <1>1, <2>2, <3>1, <3>3, FilledKept
    <2> QED BY <2>1, <2>4, <2>5 DEF GapRound
  <1> QED BY <1>2, <1>3 DEF GapInv

(* A step of the tables keeps PushInv. *)
LEMMA PushKept ==
  ASSUME IInv, TableStep, UNCHANGED <<cursors, round, pushed, dirty, missed, ok>>
  PROVE  PushInv'
  <1>1. DbType(db) /\ pushed \in [Convs -> SUBSET Nat] BY DEF IInv, TypeInv
  <1>2. ASSUME NEW c \in Convs PROVE PushConv(c)'
    <2>1. PushConv(c) /\ pushed[c] \subseteq Nat BY <1>1 DEF IInv, PushInv
    <2> QED BY <1>1, <2>1, TopKept DEF PushConv
  <1>3. \A r \in round : PushRound(r)' BY DEF IInv, PushInv, PushRound, PushBounds, Covered
  <1>4. PushSurvivesRound' BY DEF IInv, PushInv, PushSurvivesRound
  <1> QED BY <1>2, <1>3, <1>4 DEF PushInv

(* A step of the tables keeps WalkInv: a row that moves is in moved. *)
LEMMA WalkKept ==
  ASSUME IInv, TableStep, round' = round, clock' \in Nat
  PROVE  WalkInv'
  <1>1. DbType(db) /\ DbType(db') /\ clock \in Nat BY DEF IInv, TypeInv, TableStep
  <1>2. ASSUME NEW c \in Convs PROVE Place(c) \in Pairs /\ Place(c)' \in Pairs /\ ~Precedes(Place(c)', Place(c))
    <2>1. Place(c)' \in Pairs
      <3>1. HasRow(c)' => Row(c)'.updated \in Nat BY <1>1, RowTypesNext
      <3>2. NowMs(clock') \in Nat /\ c \in Nat BY NowMsFacts, WebSyncAssumption
      <3>3. PICK n \in Nat : Place(c)' = <<n, c>> BY <3>1, <3>2 DEF Place
      <3> QED BY <3>2, <3>3, SMTT(30) DEF Pairs
    <2> QED BY <1>1, <2>1, PlaceType DEF TableStep
  <1>3. ASSUME NEW c \in Convs, round # {}, HasRow(c)', c \notin moved'
        PROVE  HasRow(c) /\ c \notin moved /\ Place(c)' = Place(c)
    <2>1. HasRow(c) /\ c \notin moved /\ Row(c)'.updated = Row(c).updated BY <1>3 DEF TableStep
    <2> QED BY <1>3, <2>1 DEF Place
  <1>4. ASSUME NEW r \in round PROVE WalkRound(r)'
    <2>1. WalkRound(r) /\ RoundType(r) /\ DecodeCursor(r.at) \in Pairs
      BY CursorType DEF IInv, TypeInv, WalkInv
    <2>2. \A x \in r.at : x[1] * PerMs <= NowMs(clock')
      <3> SUFFICES ASSUME NEW x \in r.at PROVE x[1] * PerMs <= NowMs(clock') OBVIOUS
      <3>1. x \in Nat \X Convs BY <2>1 DEF RoundType
      <3>2. x[1] \in Nat BY <3>1
      <3>3. x[1] * PerMs <= NowMs(clock) BY <2>1 DEF WalkRound
      <3>4. NowMs(clock) <= NowMs(clock') BY DEF TableStep
      <3>5. NowMs(clock) \in Nat /\ NowMs(clock') \in Nat BY <1>1, NowMsFacts
      <3>6. x[1] * PerMs \in Nat BY <3>2, WebSyncAssumption, SMTT(30)
      <3> QED BY <3>3, <3>4, <3>5, <3>6, SMTT(30)
    <2>3. ASSUME r.phase = "bounds", NEW k \in DOMAIN r.bounds
          PROVE  ~Precedes(Place(r.bounds[k].id)', DecodeCursor(r.at))
      <3>1. r.bounds[k].id \in Convs
        <4>1. r.bounds[k] \in Item BY <2>1, SMTT(30) DEF RoundType
        <4> QED BY <4>1, SMTT(30) DEF Item
      <3>2. ~Precedes(Place(r.bounds[k].id), DecodeCursor(r.at)) BY <2>1, <2>3 DEF WalkRound
      <3>3. \A x, y, z \in Pairs : ~Precedes(x, y) /\ ~Precedes(y, z) => ~Precedes(x, z) BY PrecedesOrder
      <3> QED BY <1>2, <2>1, <3>1, <3>2, <3>3
    <2>4. ASSUME NEW c \in Convs, HasRow(c)', c \notin moved'
          PROVE  /\ r.phase = "list" => c \in DOMAIN r.list \/ Precedes(Place(c)', DecodeCursor(r.at))
                 /\ r.phase = "bounds" => Bound(r, c) # {} \/ Precedes(Place(c)', DecodeCursor(r.at))
      BY <1>3, <2>1, <2>4 DEF WalkRound
    <2> QED BY <2>1, <2>2, <2>3, <2>4 DEF WalkRound
  <1>5. WalkComplete'
    <2> SUFFICES ASSUME NEW r \in round, NEW c \in Convs, HasRow(c)'
                 PROVE  /\ r.phase = "bounds" /\ r.bounds = <<>> => c \in DOMAIN r.list \cup moved'
                        /\ r.phase = "apply" => Bound(r, c) # {} \/ c \in moved'
      BY DEF WalkComplete
    <2>1. WalkComplete BY DEF IInv, WalkInv
    <2>2. c \notin moved' => HasRow(c) /\ c \notin moved BY <1>3
    <2> QED BY <2>1, <2>2 DEF WalkComplete
  <1> QED BY <1>4, <1>5 DEF WalkInv

(* A step of the tables keeps the invariant. *)
LEMMA TablesKeep ==
  ASSUME IInv, TableStep, UNCHANGED <<cursors, stored, round, got, pushed, dirty, missed, ok>>,
         clock' \in Nat, clock' < FarFuture,
         frames' \in Seq({"push", "resync"} \X Convs \X Nat),
         \A i \in DOMAIN frames' : FrameOk(frames[i])',
         messages' \in [Convs -> SUBSET Nat],
         \A c \in Convs : messages'[c] \subseteq 1 .. ConvMax(c)'
  PROVE  IInv'
  <1>1. GapInv' /\ PushInv' /\ WalkInv' BY GapKept, PushKept, WalkKept
  <1>2. TypeInv' BY DEF IInv, TypeInv, TableStep
  <1> QED BY <1>1, <1>2 DEF IInv, TableStep

(* The pages and the pulls that the read services answer, wherever a round   *)
(* has got to.                                                               *)
LEMMA ServerAnswers ==
  ASSUME IInv
  PROVE  Answers
  <1>1. DbType(db) /\ clock \in Nat /\ TimeInv /\ TableInv BY DEF IInv, TypeInv
  <1>2. ASSUME NEW r \in round, NEW limit \in Nat, NEW pm \in Nat
        PROVE  IsPage(ListPage(db, me, r.at, limit, pm), DecodeCursor(r.at))
    <2>1. DecodeCursor(r.at) \in Pairs BY CursorType DEF IInv
    <2> QED BY <1>1, <2>1, PageFacts
  <1>3. ASSUME NEW c \in Convs, NEW begin \in Nat, NEW end \in Nat, NEW limit \in Nat, NEW pm \in Nat
        PROVE  IsAnswer(Pull(db, me, c, begin, end, limit, pm), c)
    BY <1>1, PullFacts DEF IsAnswer
  <1> QED BY <1>2, <1>3 DEF Answers

-----------------------------------------------------------------------------
(* The actions that change the tables. *)

(* The parts of a frame. *)
LEMMA FrameType ==
  ASSUME NEW f \in Frame PROVE f[1] \in {"push", "resync"} /\ f[2] \in Convs /\ f[3] \in Nat
  BY SMTT(30) DEF Frame

(* A step of the tables keeps a frame on its way usable. *)
LEMMA FrameKept ==
  ASSUME IInv, TableStep, NEW f \in Frame, FrameOk(f)
  PROVE  FrameOk(f)'
  <1>1. DbType(db) BY DEF IInv, TypeInv
  <1>2. f[2] \in Convs /\ f[3] \in Nat BY FrameType
  <1>3. f[3] <= ConvMax(f[2]) /\ (HasRow(f[2]) => f[3] <= Top(f[2])) BY DEF FrameOk
  <1>4. f[3] <= ConvMax(f[2])' /\ (HasRow(f[2])' => f[3] <= Top(f[2])') BY <1>1, <1>2, <1>3, TopKept
  <1> QED BY <1>4 DEF FrameOk

(* ... and all of them. *)
LEMMA FramesSame ==
  ASSUME IInv, TableStep, frames' = frames
  PROVE  frames' \in Seq(Frame) /\ \A i \in DOMAIN frames' : FrameOk(frames[i])'
  <1>1. frames \in Seq(Frame) /\ \A i \in DOMAIN frames : FrameOk(frames[i]) BY DEF IInv, TypeInv, GapInv, Frame
  <1>2. \A i \in DOMAIN frames : frames[i] \in Frame BY <1>1, SMTT(30)
  <1>3. ASSUME NEW i \in DOMAIN frames PROVE FrameOk(frames[i])'
    <2>1. PICK f \in Frame : f = frames[i] BY <1>2
    <2>2. FrameOk(f)' BY <1>1, <2>1, FrameKept
    <2> QED BY <2>1, <2>2 DEF FrameOk
  <1> QED BY <1>1, <1>3

(* ... with the one that Pushes adds. *)
LEMMA FramesMore ==
  ASSUME IInv, TableStep, NEW c \in Convs, NEW seq \in Nat, Pushes(c, seq), ConvMax(c)' = seq
  PROVE  frames' \in Seq(Frame) /\ \A i \in DOMAIN frames' : FrameOk(frames[i])'
  <1>1. frames \in Seq(Frame) /\ \A i \in DOMAIN frames : FrameOk(frames[i]) BY DEF IInv, TypeInv, GapInv, Frame
  <1>2. \A i \in DOMAIN frames : frames[i] \in Frame BY <1>1, SMTT(30)
  <1>3. CASE frames' = frames BY <1>3, FramesSame
  <1>4. ASSUME NEW kind \in {"push", "resync"}, frames' = Append(frames, <<kind, c, seq>>), seq <= Top(c)'
        PROVE  frames' \in Seq(Frame) /\ \A i \in DOMAIN frames' : FrameOk(frames[i])'
    <2>1. PICK f : f = <<kind, c, seq>> OBVIOUS
    <2>2. f \in Frame /\ f[2] = c /\ f[3] = seq BY <2>1, SMTT(30) DEF Frame
    <2>3. frames' = Append(frames, f) BY <1>4, <2>1
    <2>4. frames' \in Seq(Frame) /\ \A i \in DOMAIN frames' : frames'[i] = f \/ (i \in DOMAIN frames /\ frames'[i] = frames[i])
      BY <1>1, <2>2, <2>3, SMTT(30)
    <2>5. FrameOk(f)'
      <3>1. seq <= ConvMax(c)' BY SMTT(30)
      <3> QED BY <1>4, <2>2, <3>1 DEF FrameOk
    <2>6. ASSUME NEW i \in DOMAIN frames' PROVE FrameOk(frames[i])'
      <3>1. CASE frames'[i] = f BY <2>5, <3>1 DEF FrameOk
      <3>2. CASE i \in DOMAIN frames /\ frames'[i] = frames[i]
        <4>1. PICK g \in Frame : g = frames[i] BY <1>2, <3>2
        <4>2. FrameOk(g)' BY <1>1, <3>2, <4>1, FrameKept
        <4> QED BY <3>2, <4>1, <4>2 DEF FrameOk
      <3> QED BY <2>4, <3>1, <3>2
    <2> QED BY <2>4, <2>6
  <1>5. DbType(db') BY DEF TableStep
  <1> QED BY <1>3, <1>4, <1>5, PushesFrames

(* A view that stays is still below the maximum. *)
LEMMA ViewSame ==
  ASSUME IInv, TableStep, messages' = messages
  PROVE  messages' \in [Convs -> SUBSET Nat] /\ \A c \in Convs : messages'[c] \subseteq 1 .. ConvMax(c)'
  <1>1. DbType(db) /\ DbType(db') /\ messages \in [Convs -> SUBSET Nat] /\ \A c \in Convs : messages[c] \subseteq 1 .. ConvMax(c)
    BY DEF IInv, TypeInv, GapInv, GapConv, TableStep
  <1>2. ASSUME NEW c \in Convs PROVE messages'[c] \subseteq 1 .. ConvMax(c)'
    <2>1. ConvMax(c) \in Nat /\ ConvMax(c)' \in Nat /\ ConvMax(c) <= ConvMax(c)' BY <1>1, RowTypes, RowTypesNext DEF TableStep
    <2>2. 1 .. ConvMax(c) \subseteq 1 .. ConvMax(c)' BY <2>1, SMTT(30)
    <2> QED BY <1>1, <2>2
  <1> QED BY <1>1, <1>2

(* The clock stays before FirstPage's time. *)
LEMMA TickNow ==
  ASSUME TypeInv, clock' = clock \/ Tick
  PROVE  clock' \in Nat /\ clock' < FarFuture
  <1>1. clock \in Nat /\ clock < FarFuture BY DEF TypeInv
  <1> QED BY <1>1, WebSyncAssumption, SMTT(30) DEF Tick

(* Somebody else's message keeps the invariant. *)
LEMMA SendKeeps == ASSUME IInv, NEW c \in Convs, Send(c) PROVE IInv'
  <1>1. TypeInv /\ TableInv /\ TimeInv /\ DbType(db) BY DEF IInv, TypeInv
  <1> DEFINE seq == ConvMax(c) + 1
  <1>2. seq \in Nat
    <2>1. ConvMax(c) \in Nat BY <1>1, RowTypes
    <2> QED BY <2>1, SMTT(30)
  <1>3. /\ Tick /\ Pushes(c, seq)
        /\ db' = Stored(c, 2, seq, Larger(db.convs[c].updated, NowMs(clock')))
        /\ moved \subseteq moved' /\ (round # {} /\ IsMember(c) => c \in moved')
    BY DEF Send, Moves
  <1>4. TableStep /\ ConvMax(c)' = seq BY <1>1, <1>3, StoredStep
  <1>5. UNCHANGED <<cursors, stored, round, got, pushed, dirty, missed, ok, messages>>
    BY DEF Send, clientVars, timerVars
  <1>6. clock' \in Nat /\ clock' < FarFuture BY <1>1, <1>3, TickNow
  <1> HIDE DEF seq
  <1>7. frames' \in Seq(Frame) /\ \A i \in DOMAIN frames' : FrameOk(frames[i])' BY <1>2, <1>3, <1>4, FramesMore
  <1>8. messages' \in [Convs -> SUBSET Nat] /\ \A x \in Convs : messages'[x] \subseteq 1 .. ConvMax(x)'
    BY <1>4, <1>5, ViewSame
  <1> QED BY <1>4, <1>5, <1>6, <1>7, <1>8, TablesKeep DEF Frame

(* The user's own message keeps the invariant. *)
LEMMA TransmitKeeps == ASSUME IInv, NEW c \in Convs, transmit(c) PROVE IInv'
  <1>1. TypeInv /\ TableInv /\ TimeInv /\ DbType(db) BY DEF IInv, TypeInv
  <1> DEFINE seq == ConvMax(c) + 1
  <1>2. seq \in Nat /\ 1 <= seq
    <2>1. ConvMax(c) \in Nat BY <1>1, RowTypes
    <2> QED BY <2>1, SMTT(30)
  <1>3. /\ Tick /\ Pushes(c, seq)
        /\ db' = Stored(c, me, seq, Larger(db.convs[c].updated, NowMs(clock')))
        /\ moved \subseteq moved' /\ (round # {} /\ IsMember(c) => c \in moved')
        /\ messages' = [messages EXCEPT ![c] = @ \cup {seq}]
    BY DEF transmit, Moves
  <1>4. TableStep /\ ConvMax(c)' = seq BY <1>1, <1>3, StoredStep
  <1>5. UNCHANGED <<cursors, stored, round, got, pushed, dirty, missed, ok>>
    BY DEF transmit
  <1>6. clock' \in Nat /\ clock' < FarFuture BY <1>1, <1>3, TickNow
  <1> HIDE DEF seq
  <1>7. frames' \in Seq(Frame) /\ \A i \in DOMAIN frames' : FrameOk(frames[i])' BY <1>2, <1>3, <1>4, FramesMore
  <1>8. messages' \in [Convs -> SUBSET Nat] /\ \A x \in Convs : messages'[x] \subseteq 1 .. ConvMax(x)'
    <2>1. DbType(db') /\ messages \in [Convs -> SUBSET Nat] /\ \A x \in Convs : messages[x] \subseteq 1 .. ConvMax(x)
      BY <1>4 DEF IInv, TypeInv, GapInv, GapConv, TableStep
    <2>2. \A x \in Convs : messages'[x] = IF x = c THEN messages[c] \cup {seq} ELSE messages[x] BY <1>3, <2>1
    <2>3. messages' \in [Convs -> SUBSET Nat] BY <1>2, <1>3, <2>1
    <2>4. ASSUME NEW x \in Convs PROVE messages'[x] \subseteq 1 .. ConvMax(x)'
      <3>1. ConvMax(x) \in Nat /\ ConvMax(x)' \in Nat /\ ConvMax(x) <= ConvMax(x)'
        BY <1>1, <1>4, <2>1, RowTypes, RowTypesNext DEF TableStep
      <3>2. 1 .. ConvMax(x) \subseteq 1 .. ConvMax(x)' BY <3>1, SMTT(30)
      <3>3. seq \in 1 .. seq BY <1>2, SMTT(30)
      <3> QED BY <1>4, <2>1, <2>2, <3>2, <3>3
    <2> QED BY <2>3, <2>4
  <1> QED BY <1>4, <1>5, <1>6, <1>7, <1>8, TablesKeep DEF Frame

(* Leaving keeps the invariant. *)
LEMMA LeaveKeeps == ASSUME IInv, NEW c \in Convs, Leave(c) PROVE IInv'
  <1>1. TypeInv /\ TableInv /\ TimeInv BY DEF IInv
  <1>2. TableStep BY <1>1, LeaveStep
  <1>3. UNCHANGED <<cursors, stored, round, got, pushed, dirty, missed, ok, messages, frames, clock>>
    BY DEF Leave, clientVars, timerVars
  <1>4. clock' \in Nat /\ clock' < FarFuture BY <1>1, <1>3, TickNow
  <1>5. frames' \in Seq(Frame) /\ \A i \in DOMAIN frames' : FrameOk(frames[i])' BY <1>2, <1>3, FramesSame
  <1>6. messages' \in [Convs -> SUBSET Nat] /\ \A x \in Convs : messages'[x] \subseteq 1 .. ConvMax(x)'
    BY <1>2, <1>3, ViewSame
  <1> QED BY <1>2, <1>3, <1>4, <1>5, <1>6, TablesKeep DEF Frame

(* Joining again keeps the invariant. *)
LEMMA JoinKeeps == ASSUME IInv, NEW c \in Convs, Join(c) PROVE IInv'
  <1>1. TypeInv /\ TableInv /\ TimeInv BY DEF IInv
  <1>2. TableStep BY <1>1, JoinStep
  <1>3. UNCHANGED <<cursors, stored, round, got, pushed, dirty, missed, ok, messages, frames>>
    BY DEF Join, clientVars, timerVars
  <1>4. clock' \in Nat /\ clock' < FarFuture BY <1>1, TickNow DEF Join
  <1>5. frames' \in Seq(Frame) /\ \A i \in DOMAIN frames' : FrameOk(frames[i])' BY <1>2, <1>3, FramesSame
  <1>6. messages' \in [Convs -> SUBSET Nat] /\ \A x \in Convs : messages'[x] \subseteq 1 .. ConvMax(x)'
    BY <1>2, <1>3, ViewSame
  <1> QED BY <1>2, <1>3, <1>4, <1>5, <1>6, TablesKeep DEF Frame

(* Marking read keeps the invariant. *)
LEMMA MarkReadKeeps == ASSUME IInv, NEW c \in Convs, markRead(c) PROVE IInv'
  <1>1. TypeInv /\ TableInv /\ TimeInv /\ messages[c] \subseteq 1 .. ConvMax(c) BY DEF IInv, GapInv, GapConv
  <1>2. TableStep BY <1>1, MarkReadStep
  <1>3. UNCHANGED <<cursors, stored, round, got, pushed, dirty, missed, ok, messages, frames, clock>>
    BY DEF markRead, timerVars
  <1>4. clock' \in Nat /\ clock' < FarFuture BY <1>1, <1>3, TickNow
  <1>5. frames' \in Seq(Frame) /\ \A i \in DOMAIN frames' : FrameOk(frames[i])' BY <1>2, <1>3, FramesSame
  <1>6. messages' \in [Convs -> SUBSET Nat] /\ \A x \in Convs : messages'[x] \subseteq 1 .. ConvMax(x)'
    BY <1>2, <1>3, ViewSame
  <1> QED BY <1>2, <1>3, <1>4, <1>5, <1>6, TablesKeep DEF Frame
=============================================================================
