-------------------------------- MODULE Session --------------------------------
(***************************************************************************)
(* The native sessions of one user on one platform: Login and Logout with  *)
(* the one-token TokenStore, the handshakes of the user's connections on   *)
(* any node, the kick each new connection publishes on the Bus, its local  *)
(* fallback when the Bus refuses it, and the periodic re-check of a live   *)
(* connection's token.                                                     *)
(*                                                                         *)
(* The Bus delivers a kick to any subset of the nodes, at most once and at *)
(* any later time.  Calls of the TokenStore may fail, a failed Set or      *)
(* Delete with or without having taken effect.                             *)
(*                                                                         *)
(* Left out: passwords, other platforms (their keys and connections are    *)
(* disjoint), external tokens, and a node that is closing, where kick      *)
(* returns early and Shutdown closes every connection (Gateway).           *)
(***************************************************************************)
EXTENDS Integers, FiniteSets

CONSTANTS
    Tokens,         \* token ids (jti); each is issued once
    NoToken,        \* the TokenStore has no entry for the key
    Conns,          \* connections
    NoConn,         \* nobody
    Nodes,          \* nodes
    NodeOf,         \* conn |-> the node it reaches
    FailLimit,      \* recheckFailLimit
    Ending          \* bound: the tokens that may be logged out, and may expire

ASSUME SessionAssumption ==
    /\ NoToken \notin Tokens /\ NoConn \notin Conns
    /\ NodeOf \in [Conns -> Nodes]
    /\ FailLimit \in Nat \ {0} /\ Ending \subseteq Tokens

VARIABLES
    current,        \* the TokenStore: the valid token of the user and platform
    login,          \* token |-> "new", "signed", "held" by the client, or "lost"
    logout,         \* token |-> "no", "verified" or "done"
    expired,        \* tokens past their expiry
    step,           \* conn |-> where Handle is for it
    life,           \* conn |-> "none", "up", "draining" or "closed"
    token,          \* conn |-> its Identity.TokenId
    inbox,          \* node |-> connections whose kick event is still to be consumed
    run,            \* node |-> the kick the Bus callback is working on
    snap,           \* conn |-> UserMap snapshot of its fallback kick
    dead,           \* connections whose re-check decided to kick
    recheckFails,   \* conn |-> Client.recheckFails
    streak,         \* history: conn |-> failed checks since the last answered one
    kickedBy        \* history: conn |-> the connection whose fallback kick drained it

auth == <<current, login, logout, expired>>
kicks == <<inbox, run, snap>>
checks == <<dead, recheckFails, streak>>
vars == <<auth, step, life, token, kicks, checks, kickedBy>>

NoRun == [src |-> NoConn, clients |-> {}]

Init ==
    /\ current = NoToken
    /\ login = [t \in Tokens |-> "new"]
    /\ logout = [t \in Tokens |-> "no"]
    /\ expired = {}
    /\ step = [c \in Conns |-> "free"]
    /\ life = [c \in Conns |-> "none"]
    /\ token = [c \in Conns |-> NoToken]
    /\ inbox = [n \in Nodes |-> {}]
    /\ run = [n \in Nodes |-> NoRun]
    /\ snap = [c \in Conns |-> {}]
    /\ dead = {}
    /\ recheckFails = [c \in Conns |-> 0]
    /\ streak = [c \in Conns |-> 0]
    /\ kickedBy = [c \in Conns |-> NoConn]

-----------------------------------------------------------------------------
(* Login, Logout and Verify. *)

(* Issue signs a token, then writes it; the last writer wins. *)
Sign(t) ==
    /\ login[t] = "new"
    /\ login' = [login EXCEPT ![t] = "signed"]
    /\ UNCHANGED <<current, logout, expired, step, life, token, kicks, checks, kickedBy>>

SetToken(t) ==
    /\ login[t] = "signed"
    /\ current' = t
    /\ login' = [login EXCEPT ![t] = "held"]
    /\ UNCHANGED <<logout, expired, step, life, token, kicks, checks, kickedBy>>

(* The login is answered with an error; the token may have been stored. *)
SetFails(t) ==
    /\ login[t] = "signed"
    /\ current' \in {current, t}
    /\ login' = [login EXCEPT ![t] = "lost"]
    /\ UNCHANGED <<logout, expired, step, life, token, kicks, checks, kickedBy>>

Verify(t) == login[t] = "held" /\ current = t /\ t \notin expired

(* Logout runs after the request was authenticated; the store may have     *)
(* changed by the time it deletes.                                         *)
LogoutBegin(t) ==
    /\ t \in Ending /\ Verify(t) /\ logout[t] = "no"
    /\ logout' = [logout EXCEPT ![t] = "verified"]
    /\ UNCHANGED <<current, login, expired, step, life, token, kicks, checks, kickedBy>>

DelAlways(t) == NoToken

DelIfValue(t) == IF current = t THEN NoToken ELSE current

Revoke(t) ==
    /\ logout[t] = "verified"
    /\ logout' = [logout EXCEPT ![t] = "done"]
    /\ current' \in {DelIfValue(t), current}
    /\ UNCHANGED <<login, expired, step, life, token, kicks, checks, kickedBy>>

Expire(t) ==
    /\ t \in Ending /\ login[t] # "new" /\ t \notin expired
    /\ expired' = expired \cup {t}
    /\ UNCHANGED <<current, login, logout, step, life, token, kicks, checks, kickedBy>>

(* The TTL of the cache entry ends. *)
CacheExpires ==
    /\ current \in expired
    /\ current' = NoToken
    /\ UNCHANGED <<login, logout, expired, step, life, token, kicks, checks, kickedBy>>

-----------------------------------------------------------------------------
(* A connection: verified, adopted, kick published, served. *)

Active(c) == life[c] = "up"
RegisteredAt(n) == {c \in Conns : life[c] \in {"up", "draining"} /\ NodeOf[c] = n}

Handshake(c, t) ==
    /\ step[c] = "free" /\ Verify(t)
    /\ step' = [step EXCEPT ![c] = "verified"]
    /\ token' = [token EXCEPT ![c] = t]
    /\ UNCHANGED <<auth, life, kicks, checks, kickedBy>>

Adopt(c) ==
    /\ step[c] = "verified"
    /\ step' = [step EXCEPT ![c] = "adopted"]
    /\ life' = [life EXCEPT ![c] = "up"]
    /\ UNCHANGED <<auth, token, kicks, checks, kickedBy>>

Close(c) ==
    /\ life[c] \in {"up", "draining"}
    /\ life' = [life EXCEPT ![c] = "closed"]
    /\ UNCHANGED <<auth, step, token, kicks, checks, kickedBy>>

publishKick(c) ==
    /\ step[c] = "adopted"
    /\ step' = [step EXCEPT ![c] = IF Active(c) THEN "publishing" ELSE "serving"]
    /\ UNCHANGED <<auth, life, token, kicks, checks, kickedBy>>

(* The Bus takes the event and will bring it to the nodes N, or to fewer. *)
Deliver(c, N) == inbox' = [n \in Nodes |-> IF n \in N THEN inbox[n] \cup {c} ELSE inbox[n]]

Published(c) ==
    /\ step[c] = "publishing"
    /\ \E N \in SUBSET Nodes : Deliver(c, N)
    /\ step' = [step EXCEPT ![c] = "serving"]
    /\ UNCHANGED <<auth, life, token, run, snap, checks, kickedBy>>

(* The Bus reports an error, although the event may be on its way: a       *)
(* connection that is still active falls back to its own node, unless the  *)
(* operation ran into its deadline.  A deployment without a Bus is the     *)
(* case where every publication fails at once.                             *)
PublishFails(c) ==
    /\ step[c] = "publishing"
    /\ \E N \in SUBSET Nodes : Deliver(c, N)
    /\ \E timedOut \in BOOLEAN :
         IF Active(c) /\ ~timedOut
         THEN /\ step' = [step EXCEPT ![c] = "fallback"]
              /\ snap' = [snap EXCEPT ![c] = RegisteredAt(NodeOf[c])]
         ELSE /\ step' = [step EXCEPT ![c] = "serving"]
              /\ UNCHANGED snap
    /\ UNCHANGED <<auth, life, token, run, checks, kickedBy>>

(* beginDrain under kickMu, for every connection of S that is still up. *)
BeginDrain(S) == life' = [c \in Conns |-> IF c \in S /\ life[c] = "up" THEN "draining" ELSE life[c]]

Targets(clients, src) == {d \in clients : token[d] # token[src]}

SourceAny(c) == TRUE

(* Inside the lock: the source must not have been drained or closed. *)
SourceActive(c) == Active(c)

FallbackKick(c) ==
    LET hit == IF SourceActive(c) THEN {d \in Targets(snap[c], c) : Active(d)} ELSE {}
    IN  /\ step[c] = "fallback"
        /\ step' = [step EXCEPT ![c] = "serving"]
        /\ BeginDrain(hit)
        /\ kickedBy' = [d \in Conns |-> IF d \in hit THEN c ELSE kickedBy[d]]
        /\ snap' = [snap EXCEPT ![c] = {}]
        /\ UNCHANGED <<auth, token, inbox, run, checks>>

(* The Bus callback of node n: take the UserMap snapshot, then the lock. *)
OnKick(n, c) ==
    /\ run[n] = NoRun /\ c \in inbox[n]
    /\ inbox' = [inbox EXCEPT ![n] = @ \ {c}]
    /\ run' = [run EXCEPT ![n] = [src |-> c, clients |-> RegisteredAt(n)]]
    /\ UNCHANGED <<auth, step, life, token, snap, checks, kickedBy>>

Kick(n) ==
    /\ run[n] # NoRun
    /\ BeginDrain(Targets(run[n].clients, run[n].src))
    /\ run' = [run EXCEPT ![n] = NoRun]
    /\ UNCHANGED <<auth, step, token, inbox, snap, checks, kickedBy>>

-----------------------------------------------------------------------------
(* The re-check of a live connection. *)

(* recheckLoop returns once it has decided to kick. *)
Rechecks(c) == step[c] = "serving" /\ Active(c) /\ c \notin dead

ResetNot(c) == recheckFails

Reset(c) == [recheckFails EXCEPT ![c] = 0]

SupersededNever(c) == FALSE

Superseded(c) == current # token[c]

(* The TokenStore answers. *)
RecheckAnswered(c) ==
    /\ Rechecks(c) /\ token[c] \notin expired
    /\ recheckFails' = Reset(c)
    /\ streak' = [streak EXCEPT ![c] = 0]
    /\ dead' = IF Superseded(c) THEN dead \cup {c} ELSE dead
    /\ UNCHANGED <<auth, step, life, token, kicks, kickedBy>>

(* The TokenStore is unavailable. *)
RecheckUnavailable(c) ==
    /\ Rechecks(c) /\ token[c] \notin expired
    /\ recheckFails' = [recheckFails EXCEPT ![c] = @ + 1]
    /\ streak' = [streak EXCEPT ![c] = @ + 1]
    /\ dead' = IF recheckFails'[c] >= FailLimit THEN dead \cup {c} ELSE dead
    /\ UNCHANGED <<auth, step, life, token, kicks, kickedBy>>

(* The token is past its expiry: found by the re-check or by a frame. *)
RecheckExpired(c) ==
    /\ Rechecks(c) /\ token[c] \in expired
    /\ dead' = dead \cup {c}
    /\ UNCHANGED <<auth, step, life, token, kicks, recheckFails, streak, kickedBy>>

KickExpired(c) ==
    /\ c \in dead /\ Active(c)
    /\ BeginDrain({c})
    /\ UNCHANGED <<auth, step, token, kicks, checks, kickedBy>>

Recheck(c) == RecheckAnswered(c) \/ RecheckUnavailable(c) \/ RecheckExpired(c)

TokenNext(t) == Sign(t) \/ SetToken(t) \/ SetFails(t) \/ LogoutBegin(t) \/ Revoke(t) \/ Expire(t)

ConnNext(c) ==
    \/ Adopt(c) \/ Close(c) \/ publishKick(c) \/ Published(c) \/ PublishFails(c) \/ FallbackKick(c)
    \/ Recheck(c) \/ KickExpired(c)

Next ==
    \/ \E t \in Tokens : TokenNext(t)
    \/ CacheExpires
    \/ \E c \in Conns : ConnNext(c) \/ \E t \in Tokens : Handshake(c, t)
    \/ \E n \in Nodes : Kick(n) \/ \E c \in Conns : OnKick(n, c)

Spec == Init /\ [][Next]_vars

(* recheckLoop runs on a ticker until the connection closes. *)
FairSpec == Spec /\ \A c \in Conns : WF_vars(Recheck(c)) /\ WF_vars(KickExpired(c))

-----------------------------------------------------------------------------
(* Properties. *)

(* Every variable has its type. *)
TypeOK ==
    /\ current \in Tokens \cup {NoToken}
    /\ login \in [Tokens -> {"new", "signed", "held", "lost"}]
    /\ logout \in [Tokens -> {"no", "verified", "done"}]
    /\ expired \subseteq Tokens
    /\ step \in [Conns -> {"free", "verified", "adopted", "publishing", "fallback", "serving"}]
    /\ life \in [Conns -> {"none", "up", "draining", "closed"}]
    /\ token \in [Conns -> Tokens \cup {NoToken}]
    /\ inbox \in [Nodes -> SUBSET Conns]
    /\ run \in [Nodes -> [src : Conns \cup {NoConn}, clients : SUBSET Conns]]
    /\ snap \in [Conns -> SUBSET Conns]
    /\ dead \subseteq Conns
    /\ recheckFails \in [Conns -> 0 .. FailLimit] /\ streak \in [Conns -> 0 .. FailLimit]
    /\ kickedBy \in [Conns -> Conns \cup {NoConn}]

(* A late Logout never ends a newer login: the TokenStore entry of a token *)
(* goes away only through a logout that token authenticated, a newer       *)
(* login or its expiry.                                                    *)
LogoutKeepsNewer ==
    [][current' = NoToken /\ current # NoToken => current \in expired \/ logout[current] = "verified"]_vars

(* Local fallback kicks are arbitrated by kickMu: two connections of       *)
(* different tokens never drain each other, whatever snapshots they took   *)
(* before the lock.                                                        *)
NoMutualFallback ==
    \A c, d \in Conns : ~(kickedBy[c] = d /\ kickedBy[d] = c)

(* A re-check drains a connection only if its token was replaced, revoked  *)
(* or expired, or the TokenStore failed FailLimit checks in a row: single  *)
(* outages with answers in between are survived.                           *)
RecheckSparesCurrent ==
    \A c \in dead : current # token[c] \/ token[c] \in expired \/ streak[c] >= FailLimit

(* The second line of defence: a served connection whose token was         *)
(* replaced or revoked is drained although kicks are lost and the          *)
(* TokenStore is down.                                                     *)
SupersededCloses ==
    \A c \in Conns : (step[c] = "serving" /\ Active(c) /\ current # token[c]) ~> ~Active(c)
================================================================================
