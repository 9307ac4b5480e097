--------------------------- MODULE MCPolicyFiles ---------------------------
(***************************************************************************)
(* How the instances for TLC write policy files down.                      *)
(***************************************************************************)
EXTENDS PolicyEngine

Entry(kind, fields) == [kind |-> kind, fields |-> fields]

File(kind, keys, tools) == [kind |-> kind, keys |-> keys, tools |-> tools]

Field(type, value) == [type |-> type, value |-> value]

YamlType(key) ==
    CASE key = "allowed_roles" -> "list"
      [] key = "risk_level"    -> "str"
      [] OTHER                 -> "bool"

\* A dict whose fields have the types the policy schema asks for.
Dict(values) ==
    Entry("dict", [key \in DOMAIN values |-> Field(YamlType(key), values[key])])

=============================================================================
