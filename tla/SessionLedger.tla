---------------------------- MODULE SessionLedger ----------------------------
(***************************************************************************)
(* What the session endpoints promise, whatever store, cleanup job and     *)
(* restarts are behind them: a ledger that never forgets which tokens were *)
(* ended, and that a request consults in one indivisible step.  This is    *)
(* the abstract specification of TokenSessions, which is checked to        *)
(* implement it with a store that does forget.                             *)
(*                                                                         *)
(* A token is a record with at least the fields jti, sub, exp and parent.  *)
(***************************************************************************)
EXTENDS Integers

CONSTANT Req            \* slots for concurrent requests

VARIABLES
    now,                \* the clock
    tokens,             \* the tokens signed so far
    ended,              \* the jtis ended so far
    standing            \* standing[r]: how far the request in slot r has got

ledgerVars == <<now, tokens, ended, standing>>

\* No token is under examination.
Free == [phase |-> "free", token |-> {}]

\* "presented": it verifies.  "accepted": the ledger has nothing against it.
\* "granted": the request was answered with success.
At(phase, t) == [phase |-> phase, token |-> {t}]

Is(r, phase, t) == standing[r] = At(phase, t)

Expired(t) == now >= t.exp

LedgerInit ==
    /\ now = 0 /\ tokens = {} /\ ended = {}
    /\ standing = [r \in Req |-> Free]

------------------------------------------------------------------------------

Move(r, s) == standing' = [standing EXCEPT ![r] = s]

\* A token that has not expired is presented.
Present(r, t) ==
    /\ standing[r].phase \in {"free", "granted"} /\ t \in tokens /\ ~Expired(t)
    /\ Move(r, At("presented", t))
    /\ UNCHANGED <<now, tokens, ended>>

\* The instant at which the request takes effect: its token is not ended then.
\* A token that expires while it is examined may go either way.
Accept(r, t) ==
    /\ Is(r, "presented", t)
    /\ t.jti \notin ended \/ Expired(t)
    /\ Move(r, At("accepted", t))
    /\ UNCHANGED <<now, tokens, ended>>

\* A request that was accepted may be granted.
Grant(r, t) ==
    /\ Is(r, "accepted", t)
    /\ Move(r, At("granted", t))
    /\ UNCHANGED <<now, tokens, ended>>

\* A request that was accepted ends a token of its own subject, for ever.  It
\* may be answered in the same step.
End(r, t, u) ==
    /\ Is(r, "accepted", t) /\ u \in tokens /\ u.sub = t.sub
    /\ ended' = ended \union {u.jti}
    /\ \E s \in {At("accepted", t), At("granted", t), Free} : Move(r, s)
    /\ UNCHANGED <<now, tokens>>

\* New tokens carry jtis nobody has seen, one subject, and the token they
\* replace as parent.
Sign(pair, sub, parent) ==
    /\ \A n \in pair :
         n.sub = sub /\ n.parent = parent /\ \A t \in tokens : t.jti # n.jti
    /\ tokens' = tokens \union pair
    /\ UNCHANGED <<now, ended>>

\* A login signs tokens for whoever it authenticated.
Login(pair) ==
    /\ \E n \in pair : Sign(pair, n.sub, 0)
    /\ UNCHANGED standing

\* A token is exchanged for new ones of the same subject: it has ended by then.
Exchange(r, t, pair) ==
    /\ Is(r, "accepted", t) /\ t.jti \in ended
    /\ Sign(pair, t.sub, t.jti)
    /\ Move(r, At("granted", t))

\* Requests are refused, or lost with the process.
Drop ==
    /\ UNCHANGED <<now, tokens, ended>>
    /\ DOMAIN standing' = Req
    /\ \A r \in Req : standing'[r] \in {standing[r], Free}

Pass ==
    /\ now' = now + 1
    /\ UNCHANGED <<tokens, ended, standing>>

LedgerNext ==
    \/ Drop \/ Pass
    \/ \E r \in Req :
         \/ \E t \in standing[r].token :
              \/ Accept(r, t) \/ Grant(r, t)
              \/ \E u \in tokens : End(r, t, u)
              \/ Exchange(r, t, tokens' \ tokens)
         \/ \E t \in tokens : Present(r, t)
    \/ Login(tokens' \ tokens)

LedgerSpec == LedgerInit /\ [][LedgerNext]_ledgerVars

=============================================================================
