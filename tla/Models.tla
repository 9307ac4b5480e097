------------------------------- MODULE Models -------------------------------
(***************************************************************************)
(* The domain vocabulary every component shares (models.py and             *)
(* policy_types.py).  Records keep the field names of the pydantic models; *)
(* fields no decision reads (session ids, model names, timestamps) are     *)
(* left out.  A request's approval token travels beside the request, not   *)
(* inside it.                                                              *)
(***************************************************************************)
EXTENDS Integers, Sequences, FiniteSets

CONSTANTS
    None,             \* Python's None
    LLMAdapterError   \* what generate() raises instead of returning a turn

ASSUME SentinelsDiffer == None # LLMAdapterError

\* None is no str: it is neither an approval decision nor an exception's name.
ASSUME NoneIsNoString == None \notin {"denied", "LLMAdapterError"}

\* dict.get(key, default)
Get(dict, key, default) == IF key \in DOMAIN dict THEN dict[key] ELSE default

\* sorted(list) of identifiers.  Two lists sort to the same list exactly when
\* they hold each identifier equally often, so the multiset stands for it.
Sorted(list) ==
    LET members == {list[i] : i \in DOMAIN list}
    IN  [x \in members |-> Cardinality({i \in DOMAIN list : list[i] = x})]

=============================================================================
