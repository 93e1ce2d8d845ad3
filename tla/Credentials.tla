---------------------------- MODULE Credentials ----------------------------
(***************************************************************************)
(* The key of one provider that a user keeps (UserApiKeyService), its      *)
(* verification, and the verdicts each process remembers for a while       *)
(* (ProviderPreflightService).                                             *)
(*                                                                         *)
(* A key is a number, with 0 for no key; every saved key is a new one.     *)
(* Without a key of the user's the system's is taken.  A key that cannot   *)
(* be decrypted is left out: it pauses the task like one that is missing.  *)
(* So is the address of a provider (base_url, region): a verdict in a      *)
(* cache is about key and address, but a change of the address alone keeps *)
(* the mark of a key that was verified at the one before.                  *)
(***************************************************************************)
EXTENDS Integers

CONSTANTS MaxKeys       (* bound: the keys of a behaviour are 1 .. MaxKeys       *)

ASSUME CredentialsAssumption == MaxKeys \in Nat

NoKey == 0
Keys == 1 .. MaxKeys
Processes == {"api", "worker"}

VARIABLES
    record,     \* the user's row: key, enabled, and is it marked as verified
    verify,     \* the request that verifies the key: its step and the key it has read
    valid,      \* the keys the provider accepts
    cache,      \* the keys each process has seen accepted within the last minutes
    system,     \* the key of the deployment, if there is one
    saved,      \* the last key the user has saved, and how many more may be saved
    accepted,   \* history: the keys the provider has accepted when it was asked
    overtaken,  \* history: was the key replaced while a verification was under way
    revoked     \* how many more keys the provider may take back

credentials == <<record, verify, valid, cache, system, saved, accepted, overtaken, revoked>>

NoRecord == [key |-> NoKey, enabled |-> FALSE, verified |-> FALSE]

CredentialsTypeOK ==
    /\ record \in [key : Keys \cup {NoKey}, enabled : BOOLEAN, verified : BOOLEAN]
    /\ verify \in [pc : {"idle", "probing", "rowGone"}, key : Keys \cup {NoKey}]
    /\ valid \subseteq Keys
    /\ cache \in [Processes -> SUBSET Keys]
    /\ system \in Keys \cup {NoKey}
    /\ saved \in [last : Keys \cup {NoKey}, left : 0 .. MaxKeys]
    /\ saved.last + saved.left <= MaxKeys
    /\ accepted \subseteq Keys
    /\ overtaken \in BOOLEAN
    /\ revoked \in Nat

CredentialsInit(key, saves, revocations) ==
    /\ record = NoRecord
    /\ verify = [pc |-> "idle", key |-> NoKey]
    /\ valid \in SUBSET Keys
    /\ cache = [p \in Processes |-> {}]
    /\ system = key
    /\ saved = [last |-> key, left |-> saves]
    /\ accepted = {}
    /\ overtaken = FALSE
    /\ revoked = revocations

-----------------------------------------------------------------------------
\* resolve_credentials.
Resolve == IF record.key # NoKey /\ record.enabled THEN record.key ELSE system

Trusts_Any(p, key) == cache[p] # {}

\* The verdict is remembered under a hash of the key and its address.
Trusts(p, key) == key \in cache[p]

\* What the provider says of a key, and what the process that asked remembers.
Accepts(p, key) ==
    /\ key \in valid
    /\ accepted' = accepted \cup {key}
    /\ cache' = [cache EXCEPT ![p] = @ \cup {key}]

-----------------------------------------------------------------------------
(* The user's requests.                                                    *)

Upserted_KeepsMark(key, enabled) == [key |-> key, enabled |-> enabled, verified |-> record.verified]

\* A new key starts unverified; a change of the settings alone (enabled here, base_url and region in
\* the code) keeps the mark.
Upserted(key, enabled) ==
    [key |-> key, enabled |-> enabled,
     verified |-> IF key = record.key THEN record.verified ELSE FALSE]

UpsertApiKey ==
    /\ \/ /\ saved.left > 0
          /\ saved' = [last |-> saved.last + 1, left |-> saved.left - 1]
          /\ \E on \in BOOLEAN : record' = Upserted(saved.last + 1, on)
          /\ overtaken' = (overtaken \/ verify.pc = "probing")
       \/ /\ record.key # NoKey
          /\ record' = Upserted(record.key, ~record.enabled)
          /\ UNCHANGED <<system, saved, overtaken>>
    /\ UNCHANGED <<verify, valid, cache, system, accepted, revoked>>

DeleteApiKey ==
    /\ record.key # NoKey
    /\ record' = NoRecord
    /\ verify' = IF verify.pc = "probing" THEN [verify EXCEPT !.pc = "rowGone"] ELSE verify
    /\ UNCHANGED <<valid, cache, system, saved, accepted, overtaken, revoked>>

\* The request reads the row, and then waits for the provider unless the verdict is remembered.
VerifyReads ==
    /\ verify.pc = "idle" /\ record.key # NoKey
    /\ verify' = [pc |-> "probing", key |-> record.key]
    /\ UNCHANGED <<record, valid, cache, system, saved, accepted, overtaken, revoked>>

\* It writes the mark alone, beside the key that is there by now; a row that is gone is an error.
Marks(ok) ==
    record' = IF verify.pc = "rowGone" THEN record ELSE [record EXCEPT !.verified = ok]

\* Any failure of the probe, an unreachable provider included, takes the mark away.
VerifyWrites ==
    /\ verify.pc \in {"probing", "rowGone"}
    /\ verify' = [pc |-> "idle", key |-> NoKey]
    /\ \/ Trusts("api", verify.key) /\ Marks(TRUE) /\ UNCHANGED <<cache, accepted>>
       \/ ~Trusts("api", verify.key) /\ Accepts("api", verify.key) /\ Marks(TRUE)
       \/ ~Trusts("api", verify.key) /\ Marks(FALSE) /\ UNCHANGED <<cache, accepted>>
    /\ UNCHANGED <<valid, system, saved, overtaken, revoked>>

-----------------------------------------------------------------------------
(* The provider, and time.                                                 *)

\* A key is revoked, or its account runs out of money.
RevokeKey ==
    /\ revoked > 0
    /\ revoked' = revoked - 1
    /\ \E k \in valid : valid' = valid \ {k}
    /\ UNCHANGED <<record, verify, cache, system, saved, accepted, overtaken>>

\* PCT_PROVIDER_PREFLIGHT_CACHE_SECONDS are over, or the process was started again.
VerdictExpires(p) ==
    /\ \E k \in cache[p] : cache' = [cache EXCEPT ![p] = @ \ {k}]
    /\ UNCHANGED <<record, verify, valid, system, saved, accepted, overtaken, revoked>>

KeyStep ==
    \/ UpsertApiKey \/ DeleteApiKey \/ VerifyReads \/ VerifyWrites \/ RevokeKey
    \/ \E p \in Processes : VerdictExpires(p)
=============================================================================
