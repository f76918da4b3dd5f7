------------------------------- MODULE Intake -------------------------------
(***************************************************************************)
(* What comes before the evaluation, and under it: the context is made     *)
(* from the configuration, a worker reads requests, a block list is built, *)
(* and one dict answers for one request (dict_str.c, dict_spf.c,           *)
(* dict_dnsbl.c, dict_rhsbl.c with rbl.c); and a text is cut into tokens,  *)
(* which is for the configuration to come.                                 *)
(*                                                                         *)
(* These parts share no state while they work, each runs in one thread,    *)
(* so that one behaviour is about one part.                                *)
(***************************************************************************)
EXTENDS RequestParse, ContextBuild, BlockList, Lexer

CONSTANTS
  Requests,     \* requests the dicts are asked about
  StrDicts,     \* [member, pattern, nocase, invert, weight]
  SpfDicts,     \* [weight, sections, own], the results' own weights a function
  LowerCase     \* tolower of a cell

ASSUME IntakeAssumption ==
  /\ \A r \in Requests : r \in [Members -> Seq(DOMAIN LowerCase)]
  /\ \A d \in StrDicts :
       /\ d.weight \in Int
       /\ d.pattern \in Seq(({"lit"} \X DOMAIN LowerCase) \cup ({"mbr"} \X Members))
  /\ \A d \in SpfDicts : d.weight \in Int /\ d.own \in [DOMAIN d.own -> Int]

VARIABLES
  part,         \* context, request, list, dict or text
  asked,        \* empty, or the dict and the request it was asked about
  answer        \* NoAnswer, Panic, or what the request gains

intakeVars == <<part, asked, answer, parseVars, buildVars, listVars, lexVars>>

NoAnswer == <<"none", 0>>
Panic == <<"panic", 0>>
Gain(weight) == <<"weight", weight>>
NoConf == [strings |-> {}, dicts |-> <<>>, staged |-> FALSE, stages |-> <<>>]
NoInput == [text |-> <<>>, beyond |-> NUL, opts |-> {}]

(***************************************************************************)
(* dict_str.c                                                              *)
(***************************************************************************)

SameCell(nocase, a, b) == a = b \/ (nocase /\ LowerCase[a] = LowerCase[b])
SameText(nocase, s, t) == Len(s) = Len(t) /\ \A k \in DOMAIN s : SameCell(nocase, s[k], t[k])

\* A pattern is a sequence of <<"lit", cell>> and <<"mbr", name>>.
Dynamic(pattern) == \E k \in DOMAIN pattern : pattern[k][1] = "mbr"
Asks(d, r) == MbrById(r, MbrToId(d.member))

\* vt_dict_stat_str_check; a member the request does not have is like another text
StatWeight(d, r) ==
  LET text == [k \in DOMAIN d.pattern |-> d.pattern[k][2]]
      hit  == Asks(d, r) # <<>> /\ SameText(d.nocase, Asks(d, r), text)
  IN  IF hit # d.invert THEN d.weight ELSE 0

\* vt_dict_dyn_str_check: the walk over the pattern and the member ends the process at a
\* member the request does not have; how it ends otherwise makes no difference, the
\* answer is the configured weight.
Piece(d, r, k) == IF d.pattern[k][1] = "lit" THEN <<d.pattern[k][2]>> ELSE MbrByNamen(r, d.pattern[k][2])
DynPanics(d, r) ==
  LET m == Asks(d, r)
      fits(s, n) == n + Len(s) <= Len(m) /\ SameText(d.nocase, SubSeq(m, n + 1, n + Len(s)), s)
      \* the places in the member from which the walk ends badly at the k-th piece
      dies[k \in 1..(Len(d.pattern) + 1)] ==
        IF k > Len(d.pattern) THEN {}
        ELSE LET s == Piece(d, r, k) IN
             {n \in 0..(Len(m) - 1) : s = <<>> \/ (fits(s, n) /\ n + Len(s) \in dies[k + 1])}
  IN  0 \in dies[1]

StrAnswer(d, r) ==
  CASE ~Dynamic(d.pattern) -> Gain(StatWeight(d, r))
    [] Dynamic(d.pattern) /\ DynPanics(d, r) -> Panic
    [] OTHER -> Gain(d.weight)

\* max_diff and min_diff of vt_dict_str_create
Up(n) == IF n > 0 THEN n ELSE 0
Down(n) == IF n < 0 THEN n ELSE 0

(***************************************************************************)
(* dict_spf.c                                                              *)
(***************************************************************************)

Results == {"pass", "fail", "soft_fail", "neutral", "none", "perm_error", "temp_error"}
\* vt_dict_spf_create: a result's weight, the common one for a section without its own
SpfWeight(d, res) ==
  IF res \in DOMAIN d.own THEN d.own[res] ELSE IF res \in d.sections THEN d.weight ELSE 0
SpfWeights(d) == {SpfWeight(d, res) : res \in Results}

\* vt_dict_spf_max_diff leaves a result out
SpfMax_Bug(d) == MaxOf({SpfWeight(d, res) : res \in Results \ {"temp_error"}})
SpfMax(d) == MaxOf(SpfWeights(d))
SpfMin(d) == MinOf(SpfWeights(d))

\* vt_dict_spf_check: without an answer if a member is missing, or the library fails
SpfAnswers(d, r) ==
  {NoAnswer} \cup IF \E m \in {"client_address", "helo_name", "sender"} : r[m] = <<>> THEN {}
                  ELSE {Gain(weight) : weight \in SpfWeights(d)}

(***************************************************************************)
(* dict_dnsbl.c and dict_rhsbl.c                                           *)
(***************************************************************************)

\* The member the query is made from; without it the answer is 0.
QueryMember == [dnsbl |-> "client_address", rhsbl |-> "sender_domain"]

\* vt_rbl_check: a host that is unknown, and a server that fails, give no answer.
RblAnswers(type, r) ==
  IF r[QueryMember[type]] = <<>> THEN {Gain(0)}
  ELSE {NoAnswer} \cup {Gain(weight) : weight \in UNION {Heaviest(A) : A \in SUBSET (0..(2^Width - 1))}}

(***************************************************************************)
(* One dict, asked about one request                                       *)
(***************************************************************************)

\* min_diff and max_diff of the dict
Bounds ==
  LET dict == asked[1].dict IN
  CASE asked[1].type = "str" -> <<Down(dict.weight), Up(dict.weight)>>
    [] asked[1].type = "spf" -> <<SpfMin(dict), SpfMax(dict)>>
    [] OTHER                 -> <<MinWeight, MaxWeight>>

Ask(type, dict, r) == asked = <<>> /\ asked' = <<[type |-> type, dict |-> dict, request |-> r]>>

CheckStr ==
  /\ part = "dict"
  /\ \E d \in StrDicts, r \in Requests : Ask("str", d, r) /\ answer' = StrAnswer(d, r)
  /\ UNCHANGED <<part, parseVars, buildVars, listVars, lexVars>>

CheckSpf ==
  /\ part = "dict"
  /\ \E d \in SpfDicts, r \in Requests : Ask("spf", d, r) /\ answer' \in SpfAnswers(d, r)
  /\ UNCHANGED <<part, parseVars, buildVars, listVars, lexVars>>

CheckRbl ==
  /\ part = "list" /\ phase = "ready"
  /\ \E type \in DOMAIN QueryMember, r \in Requests :
       Ask(type, <<>>, r) /\ answer' \in RblAnswers(type, r)
  /\ UNCHANGED <<part, parseVars, buildVars, listVars, lexVars>>

IntakeInit ==
  /\ part \in {"context", "request", "list", "dict", "text"}
  /\ asked = <<>> /\ answer = NoAnswer
  /\ ParseInit
  /\ IF part = "context" THEN BuildInit ELSE BuildStart(NoConf)
  /\ IF part = "list" THEN ListInit ELSE ListStart(<<>>)
  /\ IF part = "text" THEN LexInit ELSE LexStart(NoInput)

IntakeNext ==
  \/ part = "context" /\ BuildNext /\ UNCHANGED <<part, asked, answer, parseVars, listVars, lexVars>>
  \/ part = "request" /\ ParseNext /\ UNCHANGED <<part, asked, answer, buildVars, listVars, lexVars>>
  \/ part = "list" /\ asked = <<>> /\ ListNext /\ UNCHANGED <<part, asked, answer, parseVars, buildVars, lexVars>>
  \/ part = "text" /\ LexNext /\ UNCHANGED <<part, asked, answer, parseVars, buildVars, listVars>>
  \/ CheckStr \/ CheckSpf \/ CheckRbl
IntakeSpec == IntakeInit /\ [][IntakeNext]_intakeVars

(***************************************************************************)
(* Property                                                                *)
(***************************************************************************)

(* dict.h:22: "maximum weight gained by evaluating", and the minimum: what *)
(* a dict answers lies between the two it worked out when it was made,     *)
(* whatever the request.  It ends the process only for a pattern with a    *)
(* member that the request does not have.                                  *)
Missing(pattern, r) ==
  \E k \in DOMAIN pattern : pattern[k][1] = "mbr" /\ MbrByNamen(r, pattern[k][2]) = <<>>
AnswerInBounds ==
  CASE answer[1] = "weight" -> answer[2] \in Bounds[1]..Bounds[2]
    [] answer[1] = "panic"  -> Missing(asked[1].dict.pattern, asked[1].request)
    [] OTHER                -> TRUE
=============================================================================
