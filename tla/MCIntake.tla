------------------------------ MODULE MCIntake ------------------------------
EXTENDS Intake, SequencesExt

\* The configuration of the context
AllStrings == {Strings[k] : k \in DOMAIN Strings}
Dict(name, type) == [name |-> name, type |-> type]
Check(dict, depends) == [dict |-> dict, depends |-> depends]
Stage(checks, depends) == [checks |-> checks, depends |-> depends]
Conf(strings, dicts, staged, stages) ==
  [strings |-> strings, dicts |-> dicts, staged |-> staged, stages |-> stages]

TwoStages == <<Stage(<<Check("a", <<>>), Check("b", <<"a">>)>>, <<>>),
               Stage(<<Check("b", <<>>)>>, <<"a", "b">>)>>
TwoDicts == {<<Dict("a", s), Dict("b", t)>> : s, t \in {"sync", "async", "none", "unknown"}}
Single == <<Dict("a", "async")>>
MCConfigs ==
  {Conf(AllStrings, dicts, TRUE, TwoStages) : dicts \in TwoDicts \cup {<<>>, Single}}
  \cup {Conf(AllStrings, Single, FALSE, <<Stage(<<Check("a", <<>>)>>, <<"nobody">>)>>),
        Conf(AllStrings, Single, FALSE, <<>>),
        Conf(AllStrings \ {"block_resp"}, Single, FALSE, <<>>)}

\* Block lists over addresses of two bits, weights in halves
Net(network, bits, points) == [network |-> network, bits |-> bits, points |-> points]
MCBadBits == 3
Nets == {Net(2, 2, 5), Net(3, 2, -3), Net(0, 0, 2), Net(0, MCBadBits, 2)}
MCSections ==
  {<<Net(2, 1, points)>> \o nets : points \in {1, 2}, nets \in UNION {[1..n -> Nets] : n \in 0..3}}

\* Requests and dicts
Blank == [m \in Members |-> <<>>]
MCRequests ==
  {Blank,
   [Blank EXCEPT !["sender"] = <<"x">>, !["client_address"] = <<"x">>],
   [Blank EXCEPT !["sender"] = <<"x", "@", "x">>, !["sender_domain"] = <<"x">>,
                 !["client_address"] = <<"x">>, !["helo_name"] = <<"X">>],
   [Blank EXCEPT !["helo_name"] = <<"X", "x">>, !["client_name"] = <<"X">>]}
Patterns == {<<<<"lit", "x">>>>, <<<<"lit", "X">>, <<"lit", "x">>>>,
             <<<<"mbr", "client_name">>, <<"lit", "x">>>>, <<<<"lit", "x">>, <<"mbr", "recipient">>>>}
MCStrDicts ==
  [member : {"sender_domain", "helo_name", "nobody"}, pattern : Patterns,
   nocase : BOOLEAN, invert : BOOLEAN, weight : {-1, 2}]
MCSpfDicts ==
  {[weight |-> weight, sections |-> {"fail", "temp_error"}, own |-> own] :
     weight \in {-1, 1}, own \in {<<>>, [fail |-> 2], [temp_error |-> 3], [pass |-> -2]}}
MCLowerCase == [cell \in Cells \cup {"X"} |-> IF cell = "X" THEN "x" ELSE cell]

\* Texts of up to three pieces, read with every option but one, or all
Pieces ==
  {<<"a">>, <<"n", "a">>, <<"n", "o">>, <<"1">>, <<"+">>, <<"/">>, <<"*">>, <<"#">>, <<"\n">>, <<" ">>,
   <<"'">>, <<"\"">>, <<"\\">>, <<"(">>, <<"/", "*">>, <<"*", "/">>}
TextsOf(n) == {FlattenSeq(pieces) : pieces \in [1..n -> Pieces]}
AllOpts == {"scan_str", "skip_str", "scan_comment", "skip_comment", "ident_as_str"}
Input(t, beyond, opts) == [text |-> t, beyond |-> beyond, opts |-> opts]
MCInputs ==
  {Input(t, NUL, AllOpts \ {off}) : t \in UNION {TextsOf(n) : n \in 0..3}, off \in AllOpts \cup {NUL}}
  \cup {Input(t, beyond, AllOpts) : t \in UNION {TextsOf(n) : n \in 0..2}, beyond \in {"1", "/", "a"}}
=============================================================================
