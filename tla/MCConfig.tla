------------------------------ MODULE MCConfig ------------------------------
EXTENDS Config

Opt(name, type, flags, val) ==
  [name |-> name, type |-> "opt", flags |-> flags, vtype |-> type, val |-> val, opts |-> 0]
Sec(name, flags, opts) ==
  [name |-> name, type |-> "sec", flags |-> flags, vtype |-> "NONE", val |-> "", opts |-> opts]

MCSchema ==
  << << Opt("port", "INT", {}, "INT"),
        Sec("dict", {"MULTI", "TITLE", "NODUPES", "NOCASE"}, 2),
        Opt("nets", "STR", {"LIST", "NODEFAULT"}, "") >>,
     << Opt("nets", "BOOL", {}, "BOOL"),
        Opt("port", "FLOAT", {}, "FLOAT") >> >>
MCWords == {"port", "dict", "DICT", "nets"}
MCLower == [w \in MCWords \cup {""} |-> IF w = "DICT" THEN "dict" ELSE w]
=============================================================================
