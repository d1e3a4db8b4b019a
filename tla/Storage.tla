------------------------------ MODULE Storage ------------------------------
(***************************************************************************)
(* The key-value storage a Soroban contract sees, as the contracts use it: *)
(* a store is a function whose domain is the set of keys it holds, so      *)
(* `has(key)' is key \in DOMAIN store and `get(key)' is store[key].  The   *)
(* host itself is not part of the repository.                              *)
(***************************************************************************)

EmptyStore == [key \in {} |-> {}]

\* storage().set(key, value)
Put(store, key, value) ==
  [k \in DOMAIN store \union {key} |-> IF k = key THEN value ELSE store[k]]

\* storage().remove(key)
Remove(store, key) == [k \in DOMAIN store \ {key} |-> store[k]]

\* storage().get(key).unwrap_or(default)
GetOr(store, key, default) ==
  IF key \in DOMAIN store THEN store[key] ELSE default

\* A store whose keys and values belong to the given sets.
IsStore(store, Keys, Values) ==
  /\ store = [k \in DOMAIN store |-> store[k]]
  /\ DOMAIN store \subseteq Keys
  /\ \A k \in DOMAIN store : store[k] \in Values
=============================================================================
