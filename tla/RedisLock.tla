----------------------------- MODULE RedisLock -----------------------------
(***************************************************************************)
(* The lock CacheManager.acquire_lock takes: one Redis key holding the     *)
(* owner's token and a time to live.  The release script deletes the key   *)
(* only if the token is still the caller's; a failed release is swallowed. *)
(***************************************************************************)
CONSTANT None
VARIABLE holder   \* whose token the key holds, None when there is no key

Free == holder = None

(* SET NX PX: succeeds only when there is no key.                            *)
Acquire(p) == Free /\ holder' = p

Release(p) == holder' = IF holder = p THEN None ELSE holder

(* Mutant: the key is set without a time to live.                            *)
Expire_NoTimeout == FALSE /\ UNCHANGED holder

(* The time to live runs out, whatever the owner is doing.                   *)
Expire == ~Free /\ holder' = None
=============================================================================
