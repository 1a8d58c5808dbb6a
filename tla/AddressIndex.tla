------------------------------ MODULE AddressIndex ------------------------------
(***************************************************************************)
(* The address index of the UTXO set: which outputs an address owns and    *)
(* what they are worth.  It is built at the first question, and from then  *)
(* on follows the set by deltas: an index is [live, keys, total], the      *)
(* outputs of _key_to_spk and _addr_total_balance.                         *)
(***************************************************************************)
EXTENDS Integers, FiniteSets, FiniteSetsExt

CONSTANTS
  Coin,       \* outputs
  Owner,      \* Owner[k]: the address that owns output k
  Amount      \* Amount[k]: its amount

Owners == {Owner[k] : k \in Coin}

Worth(S) == MapThenSumSet(LAMBDA k : Amount[k], S)
OwnedBy(a, S) == {k \in S : Owner[k] = a}

\* An index that is not live holds nothing worth reading.
NoIndex == [live |-> FALSE, keys |-> {}, total |-> [a \in Owners |-> 0]]

\* _ensure_index_locked: built from the set, unless it is there.
Ensured(ix, utxos) ==
  IF ix.live THEN ix
  ELSE [live |-> TRUE, keys |-> utxos,
        total |-> [a \in Owners |-> Worth(OwnedBy(a, utxos))]]

\* _index_entry, of several outputs: the amounts are added, known or not.
IndexedAll(ix, S) ==
  IF ~ix.live THEN ix
  ELSE [ix EXCEPT !.keys = @ \cup S,
                  !.total = [a \in Owners |-> @[a] + Worth(OwnedBy(a, S))]]

\* Mutant: the amounts of unknown outputs are taken off as well.
DroppedAll_Twice(ix, S) ==
  IF ~ix.live THEN ix
  ELSE [ix EXCEPT !.keys = @ \ S,
                  !.total = [a \in Owners |->
                               Max({0, @[a] - 2 * Worth(OwnedBy(a, S))})]]

\* _drop_index_entry, of several outputs: what the index knows is taken off.
DroppedAll(ix, S) ==
  IF ~ix.live THEN ix
  ELSE [ix EXCEPT !.keys = @ \ S,
                  !.total = [a \in Owners |->
                               Max({0, @[a] - Worth(OwnedBy(a, S \cap ix.keys))})]]

\* get: the coins listed for an address.
Listed(ix, utxos, a) == OwnedBy(a, ix.keys \cap utxos)
=============================================================================
