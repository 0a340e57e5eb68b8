--------------------------- MODULE TokenBlacklist ---------------------------
(***************************************************************************)
(* TokenBlacklistService and the two stores behind it: the table           *)
(* `revoked_tokens` (RevokedTokenRepository), and the process-local Set    *)
(* the service uses instead when NODE_ENV is `test`.                       *)
(*                                                                         *)
(* A row is [jti, tokenType, expiresAt].  The memory backend keeps the jti *)
(* only; its rows carry the other two columns so that both backends share  *)
(* a state, and nothing reads them there.                                  *)
(***************************************************************************)
EXTENDS Integers

CONSTANT Backend        \* "database", or "memory" when NODE_ENV is "test"

ASSUME BackendAssumption == Backend \in {"database", "memory"}

VARIABLE revoked        \* the revocations the store holds

TokenType == {"access", "refresh"}

RevokedRow == [jti : Nat, tokenType : TokenType, expiresAt : Nat]

RowsOf(jti) == {row \in revoked : row.jti = jti}

\* Defects these definitions could have had, for the mutation of the runs: a
\* check that never asks the store, and a DELETE without or with a wrong WHERE.
NeverBlacklisted(jti) == FALSE
AllRows(cutoff) == revoked
LiveRows(cutoff) == {row \in revoked : row.expiresAt > cutoff}

IsBlacklisted(jti) == RowsOf(jti) # {}

\* An upsert: the row of this jti is created or replaced.
AddToBlacklist(jti, tokenType, expiresAt) ==
    revoked' = (revoked \ RowsOf(jti)) \union
                 {[jti |-> jti, tokenType |-> tokenType, expiresAt |-> expiresAt]}

\* What a cleanup that computed its cutoff earlier removes when it runs: the
\* rows that expired before the cutoff, or everything the memory Set holds.
ExpiredRows(cutoff) ==
    IF Backend = "database" THEN {row \in revoked : row.expiresAt < cutoff}
                            ELSE revoked

CleanupExpired(cutoff) == revoked' = revoked \ ExpiredRows(cutoff)

\* A new process finds the table as it was, and an empty Set.
Reload == revoked' = IF Backend = "database" THEN revoked ELSE {}

=============================================================================
