--------------------------- MODULE ContextProofs ---------------------------
(***************************************************************************)
(* Proofs about RequestParse and ContextBuild.                             *)
(*                                                                         *)
(* RequestParse, for a buffer of any length and lines of any length:       *)
(* however many clients a request has served, and wherever memory ran out, *)
(* the domain is the sender's, or the recipient's, own; and in whatever    *)
(* chunks the lines come, what is read is what they say.                   *)
(*                                                                         *)
(* ContextBuild, for any configurations: wherever making a context fails,  *)
(* what the functions that were under way undo is what was begun, and each *)
(* thing once.  The list of the calls that make a context is in order, and *)
(* what has been made is what stands before the place it has come to.  So  *)
(* each function's clean-up can be told apart from the others' by what it  *)
(* frees and by where the failure was.                                     *)
(***************************************************************************)
EXTENDS ContextBuild, RequestParse, FiniteSetTheorems, SequenceTheorems, TLAPS

\* What a member is makes no difference, that it is one does.
IsRequest(m) == m = [mbr \in Members |-> m[mbr]]
Fits(m, mbr) == After(m[mbr]) # <<>> => m[Domain[mbr]] = After(m[mbr])

Inv == IsRequest(req) /\ DomainFits
-----------------------------------------------------------------------------
(* The two members that have a domain, and where it is kept: no line names *)
(* a domain, and the two do not share one.                                 *)
LEMMA DomainApart ==
  /\ HasDomain = {"sender", "recipient"} /\ HasDomain \subseteq Members
  /\ \A mbr \in HasDomain : Domain[mbr] \in Members /\ Domain[mbr] \notin Keys \cup HasDomain
  /\ \A m, n \in HasDomain : Domain[m] = Domain[n] => m = n
  BY ParseAssumption DEF HasDomain, Domain, Members

LEMMA KeysAreMembers == Keys \subseteq Members
  BY ParseAssumption DEF Members

(* Setting a member leaves the other members as they were.                 *)
LEMMA SetMemberRight ==
  ASSUME NEW m, IsRequest(m), NEW mbr \in Keys, NEW text
  PROVE  /\ IsRequest(SetMember(m, mbr, text))
         /\ SetMember(m, mbr, text)[mbr] = text
         /\ \A n \in Members \ {mbr} : SetMember(m, mbr, text)[n] = m[n]
  BY KeysAreMembers DEF IsRequest, SetMember

(* Setting a domain touches that domain only, and sets it to what follows  *)
(* the "@" if anything does.                                               *)
LEMMA SetDomainRight ==
  ASSUME NEW m, IsRequest(m), NEW mbr \in Keys, NEW text
  PROVE  /\ IsRequest(SetDomain(m, mbr, text))
         /\ \A n \in Members : (mbr \in HasDomain => n # Domain[mbr]) => SetDomain(m, mbr, text)[n] = m[n]
         /\ mbr \in HasDomain /\ After(text) # <<>> => SetDomain(m, mbr, text)[Domain[mbr]] = After(text)
<1>1. CASE mbr \in HasDomain /\ After(text) # <<>>
  <2>1. SetDomain(m, mbr, text) = [m EXCEPT ![Domain[mbr]] = After(text)]
    BY <1>1 DEF SetDomain
  <2>2. Domain[mbr] \in Members
    BY <1>1, DomainApart
  <2> QED
    BY <1>1, <2>1, <2>2 DEF IsRequest
<1>2. CASE ~(mbr \in HasDomain /\ After(text) # <<>>)
  BY <1>2 DEF SetDomain
<1> QED
  BY <1>1, <1>2

(* A line that was kept leaves its own member with its own domain, and     *)
(* every other member with the domain it had.                              *)
LEMMA ParseLineFits ==
  ASSUME NEW m, IsRequest(m), NEW ln, Says(ln)
  PROVE  /\ IsRequest(ParseLine(m, ln))
         /\ Named(ln) \in HasDomain => Fits(ParseLine(m, ln), Named(ln))
         /\ \A n \in HasDomain \ {Named(ln)} : Fits(m, n) => Fits(ParseLine(m, ln), n)
<1> DEFINE mbr == Named(ln)
           text == Tail(ln)
           half == SetMember(m, mbr, text)
           full == SetDomain(half, mbr, text)
<1>1. mbr \in Keys
  BY DEF Says, Named
<1>2. ParseLine(m, ln) = full
  BY DEF ParseLine
<1> HIDE DEF mbr, text
<1>3. /\ IsRequest(half) /\ half[mbr] = text
      /\ \A n \in Members \ {mbr} : half[n] = m[n]
  BY <1>1, SetMemberRight
<1> HIDE DEF half
<1>4. /\ IsRequest(full)
      /\ \A n \in Members : (mbr \in HasDomain => n # Domain[mbr]) => full[n] = half[n]
      /\ mbr \in HasDomain /\ After(text) # <<>> => full[Domain[mbr]] = After(text)
  BY <1>1, <1>3, SetDomainRight
<1> HIDE DEF full
<1>5. mbr \in HasDomain => Fits(full, mbr)
  <2> SUFFICES ASSUME mbr \in HasDomain
               PROVE  Fits(full, mbr)
    OBVIOUS
  <2>1. full[mbr] = text
    BY <1>3, <1>4, DomainApart
  <2> QED
    BY <1>4, <2>1 DEF Fits
<1>6. ASSUME NEW n \in HasDomain \ {mbr}, Fits(m, n)
      PROVE  Fits(full, n)
  <2>1. full[n] = m[n]
    BY <1>3, <1>4, <1>6, DomainApart
  <2>2. Domain[n] # mbr /\ (mbr \in HasDomain => Domain[n] # Domain[mbr])
    BY <1>1, <1>6, DomainApart
  <2>3. full[Domain[n]] = m[Domain[n]]
    BY <1>3, <1>4, <1>6, <2>2, DomainApart
  <2> QED
    BY <1>6, <2>1, <2>3 DEF Fits
<1> QED
  BY <1>2, <1>4, <1>5, <1>6 DEF mbr

(* No memory for the domain: the member is torn, the others keep theirs.   *)
LEMMA HalfFits ==
  ASSUME NEW m, IsRequest(m), NEW mbr \in Keys, NEW text
  PROVE  \A n \in HasDomain \ {mbr} : Fits(m, n) => Fits(SetMember(m, mbr, text), n)
<1> DEFINE half == SetMember(m, mbr, text)
<1>1. \A n \in Members \ {mbr} : half[n] = m[n]
  BY SetMemberRight
<1>2. ASSUME NEW n \in HasDomain \ {mbr}, Fits(m, n)
      PROVE  Fits(half, n)
  <2> HIDE DEF half
  <2>1. half[n] = m[n] /\ half[Domain[n]] = m[Domain[n]]
    BY <1>1, DomainApart
  <2> QED
    BY <1>2, <2>1 DEF Fits
<1> QED
  BY <1>2
-----------------------------------------------------------------------------
LEMMA InvInit == ParseInit => Inv
<1> SUFFICES ASSUME ParseInit PROVE Inv
  OBVIOUS
<1>1. req = [m \in Members |-> <<>>]
  BY DEF ParseInit
<1>2. After(<<>>) = <<>>
  BY DEF After
<1> QED
  BY <1>1, <1>2, DomainApart DEF Inv, IsRequest, DomainFits

LEMMA DomainFitsMeans == DomainFits <=> \A n \in HasDomain \ torn : Fits(req, n)
  BY DEF DomainFits, Fits

LEMMA ScanLineKeeps == Inv /\ ScanLine => Inv'
<1> SUFFICES ASSUME Inv, ScanLine PROVE Inv'
  OBVIOUS
<1> DEFINE ln == SubSeq(buf, at + 1, First0(Terms(at)))
           mbr == Named(ln)
           half == SetMember(req, mbr, Tail(ln))
<1>0. IsRequest(req) /\ \A n \in HasDomain \ torn : Fits(req, n)
  BY DomainFitsMeans DEF Inv
<1>1. CASE /\ req' = ParseLine(req, ln)
           /\ torn' = IF Says(ln) THEN torn \ {mbr} ELSE torn
  <2>1. CASE Says(ln)
    <3>1. torn' = torn \ {mbr}
      BY <1>1, <2>1
    <3> HIDE DEF ln
    <3>2. /\ IsRequest(req')
          /\ mbr \in HasDomain => Fits(req', mbr)
          /\ \A n \in HasDomain \ {mbr} : Fits(req, n) => Fits(req', n)
      BY <1>0, <1>1, <2>1, ParseLineFits
    <3> HIDE DEF mbr
    <3>3. \A n \in HasDomain \ torn' : Fits(req', n)
      BY <1>0, <3>1, <3>2
    <3> QED
      BY <3>2, <3>3 DEF Inv, DomainFits, Fits, IsRequest
  <2>2. CASE ~Says(ln)
    BY <1>0, <1>1, <2>2 DEF ParseLine, Inv, DomainFits, IsRequest
  <2> QED
    BY <2>1, <2>2
<1>2. CASE UNCHANGED <<req, torn>>
  BY <1>2 DEF Inv, DomainFits, IsRequest
<1>3. CASE Says(ln) /\ SetDomain(half, mbr, Tail(ln)) # half /\ req' = half /\ torn' = torn \cup {mbr}
  <2>1. mbr \in Keys
    BY <1>3 DEF Says, Named
  <2> HIDE DEF ln, mbr
  <2>2. IsRequest(half) /\ \A n \in HasDomain \ {mbr} : Fits(req, n) => Fits(half, n)
    BY <1>0, <2>1, SetMemberRight, HalfFits
  <2> HIDE DEF half
  <2>3. \A n \in HasDomain \ torn' : Fits(half, n)
    BY <1>0, <1>3, <2>2
  <2> QED
    BY <1>3, <2>2, <2>3 DEF Inv, DomainFits, Fits, IsRequest
<1> QED
  BY <1>1, <1>2, <1>3 DEF ScanLine

LEMMA InvKept == Inv /\ [ParseNext]_parseVars => Inv'
<1> SUFFICES ASSUME Inv, [ParseNext]_parseVars PROVE Inv'
  OBVIOUS
<1>1. CASE ScanLine
  BY <1>1, ScanLineKeeps
<1>2. CASE UNCHANGED <<req, torn>>
  BY <1>2 DEF Inv, DomainFits, IsRequest
<1> QED
  BY <1>1, <1>2 DEF ParseNext, Accept, Read, ReadEof, ReadError, NoSpace, ScanEnd, parseVars

(* req.c: the members outlive the connection, and no sequence of clients,  *)
(* chunks, failed copies or closed connections leaves a sender, or a       *)
(* recipient, with the domain of another.                                  *)
THEOREM DomainSafety == ParseSpec => []DomainFits
<1>1. Inv => DomainFits
  BY DEF Inv
<1> QED
  BY InvInit, InvKept, <1>1, PTL DEF ParseSpec
-----------------------------------------------------------------------------
(* A set of numbers that is not empty has a least one, since there is no   *)
(* endless chain of smaller and smaller finite sets.                       *)
LEMMA LeastNat ==
  ASSUME NEW S, S \subseteq Nat, S # {}
  PROVE  \E n \in S : \A m \in S : n <= m
<1> DEFINE Upto == {0..n : n \in S}
<1>1. PICK U \in Upto : \A V \in Upto : ~(<<V, U>> \in StrictSubsetOrdering(Nat))
  <2>1. \A n \in S : IsFiniteSet(0..n) /\ 0..n \subseteq Nat
    BY FS_Interval
  <2>2. Upto \subseteq FiniteSubsetsOf(Nat) /\ Upto # {}
    BY <2>1 DEF FiniteSubsetsOf
  <2> QED
    BY <2>2, FS_StrictSubsetOrderingWellFounded, WFMin
<1>2. PICK n \in S : U = 0..n
  BY <1>1
<1>3. ASSUME NEW m \in S, m < n PROVE FALSE
  <2>1. /\ 0..m \in Upto /\ 0..m \subseteq 0..n /\ n \in 0..n /\ n \notin 0..m
        /\ 0..n \subseteq Nat /\ 0..m \subseteq Nat
    BY <1>3
  <2> QED
    BY <1>1, <1>2, <2>1 DEF StrictSubsetOrdering
<1> QED
  BY <1>2, <1>3

(* Fold, cell by cell: f runs through what a reader without a buffer has   *)
(* after each cell of the chunk.                                           *)
Step(s, cell) == IF cell = End THEN <<ParseLine(s[1], s[2]), <<>>>> ELSE <<s[1], Append(s[2], cell)>>
IsRun(f, m, ln, chunk, n) ==
  f = [k \in 0..n |-> IF k = 0 THEN <<m, ln>> ELSE Step(f[k - 1], chunk[k])]
Follows(f, m, ln, chunk) ==
  f[0] = <<m, ln>> /\ \A k \in 1..Len(chunk) : f[k] = Step(f[k - 1], chunk[k])

LEMMA StepPair == \A s, cell : Step(s, cell) = <<Step(s, cell)[1], Step(s, cell)[2]>>
  BY DEF Step

LEMMA RunIs ==
  ASSUME NEW f, NEW m, NEW ln, NEW chunk, NEW n \in Nat, IsRun(f, m, ln, chunk, n)
  PROVE  f[0] = <<m, ln>> /\ \A k \in 1..n : f[k] = Step(f[k - 1], chunk[k])
<1> DEFINE b(k) == IF k = 0 THEN <<m, ln>> ELSE Step(f[k - 1], chunk[k])
<1>1. f = [k \in 0..n |-> b(k)]
  BY DEF IsRun
<1> HIDE DEF b
<1>2. \A k \in 0..n : f[k] = b(k)
  BY <1>1
<1> QED
  BY <1>2 DEF b

(* The function that Fold is defined by exists, for a chunk of any length: *)
(* a length without one would have a least such length.                    *)
LEMMA RunExists ==
  ASSUME NEW m, NEW ln, NEW chunk
  PROVE  \A n \in Nat : \E f : IsRun(f, m, ln, chunk, n)
<1> DEFINE Bad == {n \in Nat : ~\E f : IsRun(f, m, ln, chunk, n)}
<1> SUFFICES ASSUME Bad # {} PROVE FALSE
  OBVIOUS
<1>1. PICK n \in Bad : \A b \in Bad : n <= b
  BY LeastNat
<1>2. n # 0
  <2>1. IsRun([k \in 0..0 |-> <<m, ln>>], m, ln, chunk, 0)
    BY DEF IsRun
  <2> QED
    BY <2>1
<1>3. PICK g : IsRun(g, m, ln, chunk, n - 1)
  BY <1>1, <1>2
<1> DEFINE h == [k \in 0..n |-> IF k < n THEN g[k] ELSE Step(g[n - 1], chunk[n])]
<1>4. IsRun(h, m, ln, chunk, n)
  <2>1. g[0] = <<m, ln>> /\ \A k \in 1..(n - 1) : g[k] = Step(g[k - 1], chunk[k])
    BY <1>2, <1>3, RunIs
  <2>2. ASSUME NEW k \in 0..n
        PROVE  h[k] = IF k = 0 THEN <<m, ln>> ELSE Step(h[k - 1], chunk[k])
    <3>1. CASE k = 0
      BY <1>2, <2>1, <3>1
    <3>2. CASE k \in 1..(n - 1)
      BY <1>2, <2>1, <3>2
    <3>3. CASE k = n
      BY <1>2, <2>1, <3>3
    <3> QED
      BY <3>1, <3>2, <3>3
  <2> QED
    BY <2>2 DEF IsRun
<1> QED
  BY <1>4, <1>1

LEMMA FoldRun ==
  ASSUME NEW m, NEW ln, NEW chunk \in Seq(Cells)
  PROVE  \E f : Follows(f, m, ln, chunk) /\ Fold(m, ln, chunk) = f[Len(chunk)]
<1> DEFINE f == CHOOSE g : IsRun(g, m, ln, chunk, Len(chunk))
<1>1. IsRun(f, m, ln, chunk, Len(chunk))
  BY RunExists
<1>2. Fold(m, ln, chunk) = f[Len(chunk)]
  BY DEF Fold, IsRun, Step
<1>3. Len(chunk) \in Nat
  OBVIOUS
<1> HIDE DEF f
<1> QED
  BY <1>1, <1>2, <1>3, RunIs DEF Follows

(* Whatever goes cell by cell as Fold does is Fold.                        *)
LEMMA FoldIs ==
  ASSUME NEW m, NEW ln, NEW chunk \in Seq(Cells), NEW f, Follows(f, m, ln, chunk)
  PROVE  Fold(m, ln, chunk) = f[Len(chunk)]
<1>1. PICK g : Follows(g, m, ln, chunk) /\ Fold(m, ln, chunk) = g[Len(chunk)]
  BY FoldRun
<1> DEFINE Bad == {k \in 0..Len(chunk) : f[k] # g[k]}
<1>2. ASSUME Bad # {} PROVE FALSE
  <2>1. PICK k \in Bad : \A b \in Bad : k <= b
    <3>1. Bad \subseteq Nat
      OBVIOUS
    <3> QED
      BY <1>2, <3>1, LeastNat
  <2>2. k # 0
    BY <1>1 DEF Follows
  <2>3. k \in 1..Len(chunk) /\ f[k - 1] = g[k - 1]
    BY <2>1, <2>2
  <2> QED
    BY <1>1, <2>1, <2>3 DEF Follows
<1> QED
  BY <1>1, <1>2

(* Chunk after chunk, or both at once, comes to the same.                  *)
LEMMA FoldConcat ==
  ASSUME NEW m, NEW ln, NEW c1 \in Seq(Cells), NEW c2 \in Seq(Cells),
         NEW n, NEW ln2, Fold(m, ln, c1) = <<n, ln2>>
  PROVE  Fold(m, ln, c1 \o c2) = Fold(n, ln2, c2)
<1>1. PICK f : Follows(f, m, ln, c1) /\ f[Len(c1)] = <<n, ln2>>
  BY FoldRun
<1>2. PICK g : Follows(g, n, ln2, c2) /\ Fold(n, ln2, c2) = g[Len(c2)]
  BY FoldRun
<1> DEFINE c == c1 \o c2
           h == [k \in 0..Len(c) |-> IF k <= Len(c1) THEN f[k] ELSE g[k - Len(c1)]]
<1>3. /\ c \in Seq(Cells) /\ Len(c) = Len(c1) + Len(c2)
      /\ \A k \in 1..Len(c) : c[k] = IF k <= Len(c1) THEN c1[k] ELSE c2[k - Len(c1)]
  BY ConcatProperties
<1>4. Len(c1) \in Nat /\ Len(c2) \in Nat
  OBVIOUS
<1> HIDE DEF c
<1>5. h[0] = <<m, ln>>
  BY <1>1, <1>3, <1>4 DEF Follows
<1>6. ASSUME NEW k \in 1..Len(c) PROVE h[k] = Step(h[k - 1], c[k])
  <2>1. CASE k <= Len(c1)
    <3>1. h[k] = f[k] /\ h[k - 1] = f[k - 1] /\ c[k] = c1[k] /\ k \in 1..Len(c1)
      BY <1>3, <1>4, <2>1
    <3> QED
      BY <1>1, <3>1 DEF Follows
  <2>2. CASE k > Len(c1)
    <3> DEFINE l == k - Len(c1)
    <3>1. h[k] = g[l] /\ c[k] = c2[l] /\ l \in 1..Len(c2)
      BY <1>3, <1>4, <2>2
    <3>2. h[k - 1] = g[l - 1]
      <4>1. CASE l = 1
        <5>1. h[k - 1] = f[Len(c1)] /\ g[l - 1] = g[0]
          BY <1>3, <1>4, <2>2, <4>1
        <5> QED
          BY <1>1, <1>2, <5>1 DEF Follows
      <4>2. CASE l > 1
        BY <1>3, <1>4, <2>2, <4>2
      <4> QED
        BY <3>1, <4>1, <4>2
    <3> QED
      BY <1>2, <3>1, <3>2 DEF Follows
  <2> QED
    BY <1>3, <1>4, <2>1, <2>2
<1>7. h[Len(c)] = g[Len(c2)]
  <2>1. CASE Len(c2) = 0
    <3>1. h[Len(c)] = f[Len(c1)]
      BY <1>3, <1>4, <2>1
    <3> QED
      BY <1>1, <1>2, <2>1, <3>1 DEF Follows
  <2>2. CASE Len(c2) > 0
    BY <1>3, <1>4, <2>2
  <2> QED
    BY <1>4, <2>1, <2>2
<1> HIDE DEF h
<1>8. Follows(h, m, ln, c)
  BY <1>5, <1>6 DEF Follows
<1>9. Fold(m, ln, c) = h[Len(c)]
  BY <1>3, <1>8, FoldIs
<1> QED
  BY <1>2, <1>7, <1>9 DEF c

(* A text without a terminator goes on with the line.                      *)
LEMMA FoldText ==
  ASSUME NEW m, NEW ln \in Seq(Cells), NEW chunk \in Seq(Cells), \A k \in 1..Len(chunk) : chunk[k] # End
  PROVE  Fold(m, ln, chunk) = <<m, ln \o chunk>>
<1> DEFINE h == [k \in 0..Len(chunk) |-> <<m, ln \o SubSeq(chunk, 1, k)>>]
<1>1. h[0] = <<m, ln>>
  <2>1. SubSeq(chunk, 1, 0) = <<>>
    BY SubSeqEmpty
  <2>2. h[0] = <<m, ln \o SubSeq(chunk, 1, 0)>>
    OBVIOUS
  <2> QED
    BY <2>1, <2>2, ConcatEmptySeq
<1>2. ASSUME NEW k \in 1..Len(chunk) PROVE h[k] = Step(h[k - 1], chunk[k])
  <2> DEFINE s == SubSeq(chunk, 1, k - 1)
  <2>1. SubSeq(chunk, 1, k) = s \o <<chunk[k]>>
    BY SubSeqRecursiveSecond
  <2>2. s \in Seq(Cells)
    OBVIOUS
  <2>3. chunk[k] \in Cells /\ chunk[k] # End
    OBVIOUS
  <2>4. h[k] = <<m, ln \o SubSeq(chunk, 1, k)>> /\ h[k - 1] = <<m, ln \o s>>
    <3> DEFINE e(l) == <<m, ln \o SubSeq(chunk, 1, l)>>
    <3>1. h = [l \in 0..Len(chunk) |-> e(l)] /\ k \in 0..Len(chunk) /\ k - 1 \in 0..Len(chunk)
      OBVIOUS
    <3> HIDE DEF e, h
    <3>2. h[k] = e(k) /\ h[k - 1] = e(k - 1)
      BY <3>1
    <3> QED
      BY <3>2 DEF e
  <2> HIDE DEF s, h
  <2>5. ln \o (s \o <<chunk[k]>>) = (ln \o s) \o <<chunk[k]>> /\ ln \o s \in Seq(Cells)
    BY <2>2, <2>3, ConcatAssociative
  <2>6. Append(ln \o s, chunk[k]) = (ln \o s) \o <<chunk[k]>>
    BY <2>3, <2>5, AppendIsConcat
  <2>7. Step(<<m, ln \o s>>, chunk[k]) = <<m, Append(ln \o s, chunk[k])>>
    BY <2>3 DEF Step
  <2> QED
    BY <2>1, <2>4, <2>5, <2>6, <2>7
<1>3. h[Len(chunk)] = <<m, ln \o chunk>>
  BY SubSeqFull
<1> HIDE DEF h
<1>4. Follows(h, m, ln, chunk)
  BY <1>1, <1>2 DEF Follows
<1> QED
  BY <1>3, <1>4, FoldIs

(* A terminator ends the line, and those that follow it say nothing.       *)
LEMMA FoldEnds ==
  ASSUME NEW m, NEW ln, NEW chunk \in Seq(Cells), chunk # <<>>, \A k \in 1..Len(chunk) : chunk[k] = End
  PROVE  Fold(m, ln, chunk) = <<ParseLine(m, ln), <<>>>>
<1> DEFINE h == [k \in 0..Len(chunk) |-> IF k = 0 THEN <<m, ln>> ELSE <<ParseLine(m, ln), <<>>>>]
<1>1. ParseLine(ParseLine(m, ln), <<>>) = ParseLine(m, ln)
  BY DEF ParseLine, Says
<1>2. \A k \in 1..Len(chunk) : h[k] = Step(h[k - 1], chunk[k])
  <2> TAKE k \in 1..Len(chunk)
  <2>1. chunk[k] = End
    OBVIOUS
  <2>2. CASE k = 1
    BY <2>1, <2>2 DEF Step
  <2>3. CASE k > 1
    BY <1>1, <2>1, <2>3 DEF Step
  <2> QED
    BY <2>2, <2>3
<1>3. Follows(h, m, ln, chunk)
  <2>1. h[0] = <<m, ln>>
    OBVIOUS
  <2> HIDE DEF h
  <2> QED
    BY <1>2, <2>1 DEF Follows
<1>4. h[Len(chunk)] = <<ParseLine(m, ln), <<>>>>
  BY EmptySeq
<1> HIDE DEF h
<1> QED
  BY <1>3, <1>4, FoldIs
-----------------------------------------------------------------------------
(* What is in the buffer against what the reader without one has got: what *)
(* is still to be gone through takes the request to what that has; between *)
(* two reads both have the same request, and the buffer the line.          *)
Lines == Seq(Cells \ {End})
ReadInv ==
  /\ buf \in Seq(Cells) /\ at \in Nat /\ Len(buf) <= BufLen
  /\ reader = "scan" => at <= Len(buf) /\ Fold(req, <<>>, Rest(at)) = <<want, line>>
  /\ reader = "read" => \/ buf = line /\ line \in Lines
                        \/ Len(buf) = BufLen /\ line = <<>>
  /\ reader \in {"read", "done"} => req = want

(* The line ends at the first terminator.                                  *)
LEMMA TermsRight ==
  ASSUME NEW i \in Nat, buf \in Seq(Cells), Terms(i) # {}
  PROVE  LET j == First0(Terms(i)) IN
         /\ j \in i..(Len(buf) - 1) /\ buf[j + 1] = End
         /\ \A k \in (i + 1)..j : buf[k] # End
<1> DEFINE j == First0(Terms(i))
<1>1. Terms(i) \subseteq Nat
  BY DEF Terms
<1>2. \E k \in Terms(i) : \A l \in Terms(i) : k <= l
  BY <1>1, LeastNat
<1>3. j \in Terms(i) /\ \A l \in Terms(i) : j <= l
  BY <1>2 DEF First0
<1> HIDE DEF j
<1>4. Len(buf) \in Nat
  OBVIOUS
<1>5. j \in i..(Len(buf) - 1) /\ buf[j + 1] = End
  BY <1>3 DEF Terms
<1>6. ASSUME NEW k \in (i + 1)..j, buf[k] = End PROVE FALSE
  <2>1. k - 1 \in i..(Len(buf) - 1) /\ buf[(k - 1) + 1] = End
    BY <1>4, <1>5, <1>6
  <2>2. k - 1 \in Terms(i)
    BY <2>1 DEF Terms
  <2> QED
    BY <1>3, <1>5, <2>2
<1> QED
  BY <1>5, <1>6 DEF j

(* All that is passed over behind it are terminators.                      *)
LEMMA BehindRight ==
  ASSUME buf \in Seq(Cells), NEW j \in 0..(Len(buf) - 1), buf[j + 1] = End
  PROVE  /\ Behind(j) \in (j + 1)..Len(buf)
         /\ \A k \in (j + 1)..Behind(j) : buf[k] = End
<1> DEFINE S == {k \in j..Len(buf) : k = Len(buf) \/ buf[k + 1] # End}
           b == First0(S)
<1>1. S \subseteq Nat /\ Len(buf) \in S
  OBVIOUS
<1>2. \E k \in S : \A l \in S : k <= l
  BY <1>1, LeastNat
<1>3. b \in S /\ \A l \in S : b <= l
  BY <1>2 DEF First0
<1> HIDE DEF b
<1>4. b # j
  BY <1>3
<1>5. ASSUME NEW k \in (j + 1)..b, buf[k] # End PROVE FALSE
  <2>1. k - 1 \in j..Len(buf) /\ buf[(k - 1) + 1] # End /\ k - 1 < b
    BY <1>3, <1>5
  <2>2. k - 1 \in S
    BY <2>1
  <2> HIDE DEF S
  <2>3. b \in Nat /\ b <= k - 1
    BY <1>1, <1>3, <2>2
  <2> QED
    BY <2>1, <2>3
<1>6. b = Behind(j)
  BY DEF b, Behind
<1> QED
  BY <1>3, <1>4, <1>5, <1>6

LEMMA RestType ==
  ASSUME buf \in Seq(Cells), NEW i \in 0..Len(buf)
  PROVE  /\ Rest(i) \in Seq(Cells) /\ Len(Rest(i)) = Len(buf) - i
         /\ \A k \in 1..Len(Rest(i)) : Rest(i)[k] = buf[i + k]
<1>1. \A k \in (i + 1)..Len(buf) : buf[k] \in Cells
  OBVIOUS
<1>2. i + 1 \in Int /\ Len(buf) \in Int
  OBVIOUS
<1>3. /\ SubSeq(buf, i + 1, Len(buf)) \in Seq(Cells)
      /\ Len(SubSeq(buf, i + 1, Len(buf))) = IF i + 1 <= Len(buf) THEN Len(buf) - (i + 1) + 1 ELSE 0
      /\ \A k \in 1..(Len(buf) - (i + 1) + 1) : SubSeq(buf, i + 1, Len(buf))[k] = buf[(i + 1) + k - 1]
  BY <1>1, <1>2, SubSeqProperties
<1> QED
  BY <1>3 DEF Rest

(* What is left to read begins with the line, goes on with its terminators *)
(* and then with what is behind them.                                      *)
LEMMA LineTaken ==
  ASSUME buf \in Seq(Cells), at \in Nat, Terms(at) # {}
  PROVE  LET j  == First0(Terms(at))
             ln == SubSeq(buf, at + 1, j)
         IN  /\ ln \in Lines
             /\ Behind(j) \in 0..Len(buf)
             /\ \A m : Fold(m, <<>>, Rest(at)) = Fold(ParseLine(m, ln), <<>>, Rest(Behind(j)))
<1> DEFINE j == First0(Terms(at))
           b == Behind(j)
           ln == SubSeq(buf, at + 1, j)
           ends == SubSeq(buf, j + 1, b)
<1>1. j \in at..(Len(buf) - 1) /\ buf[j + 1] = End /\ \A k \in (at + 1)..j : buf[k] # End
  BY TermsRight
<1> HIDE DEF j
<1>2. b \in (j + 1)..Len(buf) /\ \A k \in (j + 1)..b : buf[k] = End
  BY <1>1, BehindRight
<1> HIDE DEF b
<1>3. Len(buf) \in Nat /\ j \in Nat /\ b \in Nat /\ \A k \in 1..Len(buf) : buf[k] \in Cells
  BY <1>1, <1>2
<1>4. /\ ln \in Lines
      /\ ln \in Seq(Cells) /\ \A k \in 1..Len(ln) : ln[k] # End
  <2>1. \A k \in (at + 1)..j : buf[k] \in Cells \ {End}
    BY <1>1, <1>3
  <2>2. ln \in Seq(Cells \ {End})
    BY <1>3, <2>1, SubSeqProperties
  <2> HIDE DEF ln
  <2>3. ln \in Seq(Cells)
    BY <2>2, SeqMonotonic
  <2> QED
    BY <2>2, <2>3 DEF Lines
<1>5. ends \in Seq(Cells) /\ ends # <<>> /\ \A k \in 1..Len(ends) : ends[k] = End
  <2>1. \A k \in (j + 1)..b : buf[k] \in Cells
    BY <1>2, <1>3
  <2>2. /\ ends \in Seq(Cells)
        /\ Len(ends) = IF j + 1 <= b THEN b - (j + 1) + 1 ELSE 0
        /\ \A k \in 1..(b - (j + 1) + 1) : ends[k] = buf[(j + 1) + k - 1]
    BY <1>3, <2>1, SubSeqProperties
  <2> HIDE DEF ends
  <2>3. Len(ends) = b - j /\ b - j > 0
    BY <1>2, <1>3, <2>2
  <2>4. ends # <<>>
    BY <2>3
  <2>5. \A k \in 1..Len(ends) : ends[k] = End
    <3> TAKE k \in 1..Len(ends)
    <3>1. ends[k] = buf[j + k] /\ j + k \in (j + 1)..b
      BY <1>3, <2>2, <2>3
    <3> QED
      BY <1>2, <3>1
  <2> QED
    BY <2>2, <2>4, <2>5
<1>6. Rest(at) = (ln \o ends) \o Rest(b)
  <2>1. SubSeq(buf, at + 1, j) \o SubSeq(buf, j + 1, b) = SubSeq(buf, at + 1, b)
    BY <1>1, <1>2, <1>3, ConcatAdjacentSubSeq
  <2>2. SubSeq(buf, at + 1, b) \o SubSeq(buf, b + 1, Len(buf)) = SubSeq(buf, at + 1, Len(buf))
    <3>1. at + 1 \in 1..(Len(buf) + 1) /\ b \in ((at + 1) - 1)..Len(buf) /\ Len(buf) \in b..Len(buf)
      BY <1>1, <1>2, <1>3
    <3> QED
      BY <3>1, ConcatAdjacentSubSeq
  <2> QED
    BY <2>1, <2>2 DEF Rest
<1> HIDE DEF ln, ends
<1>7. Rest(b) \in Seq(Cells)
  BY <1>2, <1>3, RestType
<1>8. ASSUME NEW m PROVE Fold(m, <<>>, Rest(at)) = Fold(ParseLine(m, ln), <<>>, Rest(b))
  <2>1. Fold(m, <<>>, ln) = <<m, ln>>
    <3>1. <<>> \in Seq(Cells) /\ <<>> \o ln = ln
      BY <1>4, ConcatEmptySeq
    <3> QED
      BY <1>4, <3>1, FoldText
  <2>2. Fold(m, ln, ends) = <<ParseLine(m, ln), <<>>>>
    BY <1>5, FoldEnds
  <2>3. Fold(m, <<>>, ln \o ends) = <<ParseLine(m, ln), <<>>>>
    BY <1>4, <1>5, <2>1, <2>2, FoldConcat
  <2>4. ln \o ends \in Seq(Cells)
    BY <1>4, <1>5
  <2> DEFINE c == ln \o ends
             n == ParseLine(m, ln)
             r == Rest(b)
  <2> HIDE DEF c, n, r
  <2>5. Fold(m, <<>>, c) = <<n, <<>>>> /\ c \in Seq(Cells) /\ r \in Seq(Cells)
    BY <1>7, <2>3, <2>4 DEF c, n, r
  <2>6. Fold(m, <<>>, c \o r) = Fold(n, <<>>, r)
    BY <2>5, FoldConcat
  <2> QED
    BY <1>6, <2>6 DEF c, n, r
<1>9. b \in 0..Len(buf)
  BY <1>1, <1>2, <1>3
<1> QED
  BY <1>4, <1>8, <1>9 DEF j, b, ln

LEMMA ScanEndRight ==
  ASSUME buf \in Seq(Cells), at \in 0..Len(buf), Terms(at) = {}
  PROVE  Rest(at) \in Lines /\ \A m : Fold(m, <<>>, Rest(at)) = <<m, Rest(at)>>
<1>1. /\ Rest(at) \in Seq(Cells) /\ Len(Rest(at)) = Len(buf) - at
      /\ \A k \in 1..Len(Rest(at)) : Rest(at)[k] = buf[at + k]
  BY RestType
<1>2. ASSUME NEW k \in 1..Len(Rest(at)), Rest(at)[k] = End PROVE FALSE
  <2>1. at + k - 1 \in at..(Len(buf) - 1) /\ buf[(at + k - 1) + 1] = End
    BY <1>1, <1>2
  <2> QED
    BY <2>1 DEF Terms
<1> DEFINE r == Rest(at)
<1>3. r \in Seq(Cells) /\ \A k \in 1..Len(r) : r[k] # End
  BY <1>1, <1>2
<1> HIDE DEF r
<1>4. r \in Lines
  <2>1. r = [k \in 1..Len(r) |-> r[k]] /\ \A k \in 1..Len(r) : r[k] \in Cells \ {End}
    BY <1>3
  <2> QED
    BY <1>3, <2>1 DEF Lines
<1>5. \A m : Fold(m, <<>>, r) = <<m, r>>
  <2>1. <<>> \in Seq(Cells) /\ <<>> \o r = r
    BY <1>3, ConcatEmptySeq
  <2> QED
    BY <1>3, <2>1, FoldText
<1> QED
  BY <1>4, <1>5 DEF r

(* A chunk that is read comes behind the line that has begun.              *)
LEMMA ReadRight == ReadInv /\ Read => ReadInv'
<1> SUFFICES ASSUME ReadInv, Read PROVE ReadInv'
  OBVIOUS
<1>1. PICK k \in 1..(BufLen - Len(buf)) : \E chunk \in [1..k -> Cells] :
        /\ buf' = buf \o chunk
        /\ want' = Fold(want, line, chunk)[1]
        /\ line' = Fold(want, line, chunk)[2]
  BY DEF Read
<1>0. PICK chunk \in [1..k -> Cells] :
        /\ buf' = buf \o chunk
        /\ want' = Fold(want, line, chunk)[1]
        /\ line' = Fold(want, line, chunk)[2]
  BY <1>1
<1>2. /\ buf = line /\ line \in Lines /\ req = want /\ buf \in Seq(Cells)
      /\ at' = 0 /\ reader' = "scan" /\ req' = req
  BY DEF Read, ReadInv
<1>3. Len(buf) \in Nat /\ BufLen \in Nat
  BY <1>2, ParseAssumption
<1>4. chunk \in Seq(Cells) /\ Len(chunk) = k
  BY <1>3
<1>5. buf' \in Seq(Cells) /\ Len(buf') = Len(buf) + k
  BY <1>0, <1>2, <1>4, ConcatProperties
<1>6. PICK f : Follows(f, want, line, chunk) /\ Fold(want, line, chunk) = f[Len(chunk)]
  BY <1>4, FoldRun
<1>7. Fold(want, line, chunk) = <<want', line'>>
  <2>1. f[k] = Step(f[k - 1], chunk[k])
    BY <1>3, <1>4, <1>6 DEF Follows
  <2> QED
    BY <1>0, <1>4, <1>6, <2>1, StepPair
<1>8. Fold(req, <<>>, line) = <<want, line>>
  <2>1. <<>> \in Seq(Cells) /\ <<>> \o line = line
    BY <1>2, ConcatEmptySeq
  <2>2. \A l \in 1..Len(line) : line[l] # End
    BY <1>2 DEF Lines
  <2> QED
    BY <1>2, <2>1, <2>2, FoldText
<1>9. Fold(req, <<>>, buf') = <<want', line'>>
  <2>1. line \in Seq(Cells) /\ buf' = line \o chunk
    BY <1>0, <1>2
  <2>2. Fold(req, <<>>, line \o chunk) = Fold(want, line, chunk)
    BY <1>4, <1>8, <2>1, FoldConcat
  <2> QED
    BY <1>7, <2>1, <2>2
<1>10. Rest(0)' = buf'
  BY <1>5, SubSeqFull DEF Rest
<1> QED
  BY <1>2, <1>3, <1>5, <1>9, <1>10 DEF ReadInv

LEMMA ScanLineRight == ReadInv /\ ScanLine => ReadInv'
<1> SUFFICES ASSUME ReadInv, ScanLine PROVE ReadInv'
  OBVIOUS
<1> DEFINE j == First0(Terms(at))
           ln == SubSeq(buf, at + 1, j)
<1>1. /\ Behind(j) \in 0..Len(buf)
      /\ Fold(req, <<>>, Rest(at)) = Fold(ParseLine(req, ln), <<>>, Rest(Behind(j)))
  BY LineTaken DEF ReadInv, ScanLine
<1>2. \/ req' = ParseLine(req, ln) /\ at' = Behind(j) /\ reader' = reader
      \/ reader' = "failed" /\ at' = at
  BY DEF ScanLine
<1>3. UNCHANGED <<buf, want, line>> /\ reader = "scan" /\ Len(buf) \in Nat
  BY DEF ScanLine, ReadInv
<1> HIDE DEF j, ln
<1>4. Rest(at)' = SubSeq(buf, at' + 1, Len(buf))
  BY <1>3 DEF Rest
<1> QED
  BY <1>1, <1>2, <1>3, <1>4 DEF ReadInv, Rest

LEMMA ScanEndKeeps == ReadInv /\ ScanEnd => ReadInv'
<1> SUFFICES ASSUME ReadInv, ScanEnd PROVE ReadInv'
  OBVIOUS
<1>1. /\ reader = "scan" /\ Terms(at) = {} /\ UNCHANGED <<req, at, want, line>>
      /\ buf \in Seq(Cells) /\ at \in 0..Len(buf) /\ Len(buf) \in 0..BufLen
      /\ Fold(req, <<>>, Rest(at)) = <<want, line>>
  BY ParseAssumption DEF ReadInv, ScanEnd
<1>2. Rest(at) \in Lines /\ want = req /\ line = Rest(at)
  BY <1>1, ScanEndRight
<1>3. Rest(at) \in Seq(Cells) /\ Len(Rest(at)) = Len(buf) - at
  BY <1>1, RestType
<1>4. CASE at \in 1..(Len(buf) - 1)
  <2>1. buf' = Rest(at) /\ reader' = "read"
    BY <1>4 DEF ScanEnd
  <2>2. Len(Rest(at)) <= BufLen
    BY <1>1, <1>3, ParseAssumption
  <2> QED
    BY <1>1, <1>2, <1>3, <2>1, <2>2 DEF ReadInv
<1>5. CASE at = 0
  <2>1. Rest(at) = buf
    BY <1>1, <1>5, SubSeqFull DEF Rest
  <2> QED
    BY <1>1, <1>2, <1>5, <2>1 DEF ScanEnd, ReadInv
<1>6. CASE at = Len(buf) /\ at > 0
  <2>1. line = <<>>
    BY <1>2, <1>3, <1>6, EmptySeq
  <2>2. buf' = buf /\ reader' = IF Len(buf) < BufLen THEN "done" ELSE "read"
    BY <1>1, <1>6 DEF ScanEnd
  <2>3. Len(buf) < BufLen \/ Len(buf) = BufLen
    BY <1>1, ParseAssumption
  <2> QED
    BY <1>1, <1>2, <2>1, <2>2, <2>3 DEF ReadInv
<1> QED
  BY <1>1, <1>4, <1>5, <1>6

LEMMA ReadInvKept == ReadInv /\ [ParseNext]_parseVars => ReadInv'
<1> SUFFICES ASSUME ReadInv, [ParseNext]_parseVars PROVE ReadInv'
  OBVIOUS
<1>1. CASE Accept
  BY <1>1, ParseAssumption DEF Accept, ReadInv, Lines
<1>2. CASE ReadEof \/ ReadError \/ NoSpace
  BY <1>2 DEF ReadEof, ReadError, NoSpace, ReadInv
<1>3. CASE UNCHANGED parseVars
  BY <1>3 DEF ReadInv, parseVars, Rest
<1> QED
  BY <1>1, <1>2, <1>3, ReadRight, ScanLineRight, ScanEndKeeps DEF ParseNext

(* vt_request_parse: however the client's lines are cut into chunks, and   *)
(* however long they are, the request has what the lines say when it is    *)
(* over, none missed, none read twice; the buffer holds the line that has  *)
(* begun, or is full of lines that were read.                              *)
THEOREM LinesSafety == ParseSpec => []LinesRight
<1>1. ParseInit => ReadInv
  BY ParseAssumption DEF ParseInit, ReadInv
<1>2. ReadInv => LinesRight
  BY DEF ReadInv, LinesRight
<1> QED
  BY <1>1, <1>2, ReadInvKept, PTL DEF ParseSpec
-----------------------------------------------------------------------------
(***************************************************************************)
(* The plan is in order: by what is made, and by the place in the          *)
(* configuration.                                                          *)
(***************************************************************************)
OfDict == {"dict", "outer", "pool"}
OfCheck == {"check", "depends", "pos"}
OfStage == {"stage", "checks", "sdepends", "spos"}
Rank(t) ==
  CASE t[1] = "ctx" -> 1 [] t[1] = "str" -> 2 [] t[1] = "dicts" -> 3
    [] t[1] \in OfDict -> 4 [] t[1] = "stages" -> 5 [] OTHER -> 6
Role(t) == CASE t[1] = "dict" -> 1 [] t[1] = "outer" -> 2 [] OTHER -> 3

\* What may be made before what
Prec(a, b) ==
  \/ Rank(a) < Rank(b)
  \/ Rank(a) = 2 /\ Rank(b) = 2
  \/ Rank(a) = 4 /\ Rank(b) = 4 /\ (a[2] < b[2] \/ (a[2] = b[2] /\ Role(a) < Role(b)))
  \/ Rank(a) = 6 /\ Rank(b) = 6 /\ a[2] < b[2]
  \/ /\ Rank(a) = 6 /\ Rank(b) = 6 /\ a[2] = b[2]
     /\ \/ a[1] \in {"stage", "checks"}
        \/ b[1] \in {"sdepends", "spos"}
        \/ a[1] \in OfCheck /\ b[1] \in OfCheck /\ a[3] <= b[3]
Ordered(s) == \A k, l \in 1..Len(s) : k < l => Prec(s[k], s[l])
Has(s, x) == \E k \in 1..Len(s) : s[k] = x

LEMMA ConcatOrdered ==
  ASSUME NEW T, NEW s \in Seq(T), NEW t \in Seq(T), Ordered(s), Ordered(t),
         \A k \in 1..Len(s) : \A l \in 1..Len(t) : Prec(s[k], t[l])
  PROVE  /\ s \o t \in Seq(T) /\ Ordered(s \o t)
         /\ \A x : Has(s \o t, x) <=> Has(s, x) \/ Has(t, x)
<1> DEFINE u == s \o t
<1>1. /\ u \in Seq(T) /\ Len(u) = Len(s) + Len(t) /\ Len(s) \in Nat /\ Len(t) \in Nat
      /\ \A k \in 1..Len(u) : u[k] = IF k <= Len(s) THEN s[k] ELSE t[k - Len(s)]
  OBVIOUS
<1> HIDE DEF u
<1>2. Ordered(u)
  <2> SUFFICES ASSUME NEW k \in 1..Len(u), NEW l \in 1..Len(u), k < l PROVE Prec(u[k], u[l])
    BY DEF Ordered
  <2>1. CASE l <= Len(s)
    <3>1. k \in 1..Len(s) /\ l \in 1..Len(s) /\ u[k] = s[k] /\ u[l] = s[l]
      BY <1>1, <2>1
    <3> QED
      BY <3>1 DEF Ordered
  <2>2. CASE k <= Len(s) /\ ~(l <= Len(s))
    <3>1. k \in 1..Len(s) /\ l - Len(s) \in 1..Len(t) /\ u[k] = s[k] /\ u[l] = t[l - Len(s)]
      BY <1>1, <2>2
    <3> QED
      BY <3>1
  <2>3. CASE ~(k <= Len(s))
    <3>1. /\ k - Len(s) \in 1..Len(t) /\ l - Len(s) \in 1..Len(t) /\ k - Len(s) < l - Len(s)
          /\ u[k] = t[k - Len(s)] /\ u[l] = t[l - Len(s)]
      BY <1>1, <2>3
    <3> QED
      BY <3>1 DEF Ordered
  <2> QED
    BY <1>1, <2>1, <2>2, <2>3
<1>3. ASSUME NEW x PROVE Has(u, x) <=> Has(s, x) \/ Has(t, x)
  <2>1. Has(u, x) => Has(s, x) \/ Has(t, x)
    <3> SUFFICES ASSUME NEW k \in 1..Len(u), u[k] = x PROVE Has(s, x) \/ Has(t, x)
      BY DEF Has
    <3>1. CASE k <= Len(s)
      <4>1. k \in 1..Len(s) /\ s[k] = x
        BY <1>1, <3>1
      <4> QED
        BY <4>1 DEF Has
    <3>2. CASE ~(k <= Len(s))
      <4>1. k - Len(s) \in 1..Len(t) /\ t[k - Len(s)] = x
        BY <1>1, <3>2
      <4> QED
        BY <4>1 DEF Has
    <3> QED
      BY <3>1, <3>2
  <2>2. ASSUME NEW k \in 1..Len(s), s[k] = x PROVE Has(u, x)
    <3>1. k \in 1..Len(u) /\ u[k] = x
      BY <1>1, <2>2
    <3> QED
      BY <3>1 DEF Has
  <2>3. ASSUME NEW k \in 1..Len(t), t[k] = x PROVE Has(u, x)
    <3>1. k + Len(s) \in 1..Len(u) /\ (k + Len(s)) - Len(s) = k /\ ~(k + Len(s) <= Len(s))
      BY <1>1
    <3>2. u[k + Len(s)] = x
      BY <1>1, <3>1, <2>3
    <3> QED
      BY <3>1, <3>2 DEF Has
  <2> QED
    BY <2>1, <2>2, <2>3 DEF Has
<1> QED
  BY <1>1, <1>2, <1>3 DEF u

-----------------------------------------------------------------------------
(* One list after another: the recursion of FlattenSeq has a solution.     *)
IsFlat(f, ss, n) == f = [i \in 1..n |-> IF i = 1 THEN ss[i] ELSE f[i - 1] \o ss[i]]

LEMMA FlatIs ==
  ASSUME NEW f, NEW ss, NEW n \in Nat, IsFlat(f, ss, n)
  PROVE  \A i \in 1..n : f[i] = IF i = 1 THEN ss[i] ELSE f[i - 1] \o ss[i]
BY DEF IsFlat

LEMMA FlatExists ==
  ASSUME NEW ss, NEW n \in Nat
  PROVE  \E f : IsFlat(f, ss, n)
<1> DEFINE Bad == {m \in Nat : ~ \E f : IsFlat(f, ss, m)}
<1> SUFFICES ASSUME Bad # {} PROVE FALSE
  OBVIOUS
<1>1. PICK m \in Bad : \A k \in Bad : m <= k
  <2>1. Bad \subseteq Nat
    OBVIOUS
  <2> HIDE DEF Bad
  <2> QED
    BY <2>1, LeastNat
<1>2. m # 0
  <2>1. IsFlat([i \in 1..0 |-> 0], ss, 0)
    BY DEF IsFlat
  <2> QED
    BY <1>1, <2>1
<1>3. m \in Nat /\ m - 1 \in Nat /\ m - 1 \notin Bad
  <2>1. m \in Nat
    BY <1>1
  <2> HIDE DEF Bad
  <2>2. m - 1 \in Bad => m <= m - 1
    BY <1>1
  <2>3. m - 1 \in Nat /\ ~(m <= m - 1)
    BY <1>2, <2>1
  <2> QED
    BY <2>1, <2>2, <2>3
<1>4. PICK f : IsFlat(f, ss, m - 1)
  BY <1>3
<1> DEFINE e(h, i) == IF i = 1 THEN ss[i] ELSE h[i - 1] \o ss[i]
           g == [i \in 1..m |-> IF i < m THEN f[i] ELSE e(f, i)]
<1>5. \A i \in 1..m : g[i] = e(g, i)
  <2> SUFFICES ASSUME NEW i \in 1..m PROVE g[i] = e(g, i)
    OBVIOUS
  <2>1. i = 1 \/ (i - 1 \in 1..m /\ i - 1 < m)
    BY <1>1
  <2>2. i # 1 => g[i - 1] = f[i - 1]
    BY <2>1
  <2>3. i < m => f[i] = e(f, i)
    <3>1. \A k \in 1..(m - 1) : f[k] = e(f, k)
      BY <1>3, <1>4, FlatIs
    <3> QED
      BY <1>3, <3>1
  <2> QED
    BY <2>2, <2>3
<1>6. IsFlat(g, ss, m)
  BY <1>5 DEF IsFlat
<1> QED
  BY <1>1, <1>6

LEMMA FlattenOrdered ==
  ASSUME NEW T, NEW n \in Nat, NEW ss \in [1..n -> Seq(T)],
         \A i \in 1..n : Ordered(ss[i]),
         \A i, j \in 1..n : i < j =>
           \A k \in 1..Len(ss[i]) : \A l \in 1..Len(ss[j]) : Prec(ss[i][k], ss[j][l])
  PROVE  /\ FlattenSeq(ss) \in Seq(T) /\ Ordered(FlattenSeq(ss))
         /\ \A x : Has(FlattenSeq(ss), x) <=> \E i \in 1..n : Has(ss[i], x)
<1>1. ss \in Seq(Seq(T)) /\ Len(ss) = n
  OBVIOUS
<1>2. CASE n = 0
  <2>1. FlattenSeq(ss) = ss /\ ss = <<>>
    BY <1>1, <1>2 DEF FlattenSeq
  <2> QED
    BY <1>2, <2>1 DEF Ordered, Has
<1>3. CASE n # 0
  <2> DEFINE f == CHOOSE f : f = [i \in 1..Len(ss) |-> IF i = 1 THEN ss[i] ELSE f[i - 1] \o ss[i]]
  <2>1. FlattenSeq(ss) = f[n]
    BY <1>1, <1>3 DEF FlattenSeq
  <2>2. \A i \in 1..n : f[i] = IF i = 1 THEN ss[i] ELSE f[i - 1] \o ss[i]
    <3>1. \E g : IsFlat(g, ss, n)
      BY FlatExists
    <3>2. IsFlat(f, ss, n)
      BY <1>1, <3>1 DEF IsFlat
    <3> HIDE DEF f
    <3> QED
      BY <3>2, FlatIs
  <2> HIDE DEF f
  <2> DEFINE Good(i) == /\ f[i] \in Seq(T) /\ Ordered(f[i])
                        /\ \A x : Has(f[i], x) <=> \E j \in 1..i : Has(ss[j], x)
             Bad == {i \in 1..n : ~Good(i)}
  <2>3. Bad = {}
    <3> SUFFICES ASSUME Bad # {} PROVE FALSE
      OBVIOUS
    <3>1. PICK m \in Bad : \A k \in Bad : m <= k
      <4>1. Bad \subseteq Nat
        OBVIOUS
      <4> HIDE DEF Bad
      <4> QED
        BY <4>1, LeastNat
    <3>2. m \in 1..n /\ ~Good(m)
      BY <3>1
    <3>5. \A k \in 1..n : k < m => Good(k)
      <4>1. \A k \in 1..n : ~Good(k) => k \in Bad
        OBVIOUS
      <4> HIDE DEF Good, Bad
      <4> QED
        BY <3>1, <3>2, <4>1
    <3>3. CASE m = 1
      <4>1. f[1] = ss[1]
        BY <2>2, <3>2, <3>3
      <4>2. 1..1 = {1}
        OBVIOUS
      <4>3. Good(1)
        BY <3>2, <3>3, <4>1, <4>2
      <4> QED
        BY <3>2, <3>3, <4>3
    <3>4. CASE m # 1
      <4>1. m - 1 \in 1..n /\ Good(m - 1) /\ f[m] = f[m - 1] \o ss[m]
        <5> HIDE DEF Good, Bad
        <5>1. m - 1 \in 1..n /\ m - 1 < m
          BY <3>2, <3>4
        <5> QED
          BY <2>2, <3>2, <3>4, <3>5, <5>1
      <4>2. f[m - 1] \in Seq(T) /\ ss[m] \in Seq(T) /\ Ordered(f[m - 1]) /\ Ordered(ss[m])
        BY <3>2, <4>1
      <4>3. ASSUME NEW k \in 1..Len(f[m - 1]), NEW l \in 1..Len(ss[m])
            PROVE  Prec(f[m - 1][k], ss[m][l])
        <5>1. Has(f[m - 1], f[m - 1][k])
          BY <4>3 DEF Has
        <5>2. PICK j \in 1..(m - 1) : Has(ss[j], f[m - 1][k])
          BY <4>1, <5>1
        <5>3. PICK h \in 1..Len(ss[j]) : ss[j][h] = f[m - 1][k]
          BY <5>2 DEF Has
        <5>4. j \in 1..n /\ m \in 1..n /\ j < m
          BY <3>2
        <5>5. Prec(ss[j][h], ss[m][l])
          BY <5>4, <4>3
        <5> QED
          BY <5>3, <5>5
      <4>4. /\ f[m] \in Seq(T) /\ Ordered(f[m])
            /\ \A x : Has(f[m], x) <=> Has(f[m - 1], x) \/ Has(ss[m], x)
        <5> HIDE DEF Good, Bad
        <5> DEFINE a == f[m - 1]
                   b == ss[m]
        <5>2. a \in Seq(T) /\ b \in Seq(T) /\ Ordered(a) /\ Ordered(b)
          BY <4>2
        <5>3. \A k \in 1..Len(a) : \A l \in 1..Len(b) : Prec(a[k], b[l])
          BY <4>3
        <5>4. f[m] = a \o b
          BY <4>1
        <5>5. \A x : (Has(f[m - 1], x) <=> Has(a, x)) /\ (Has(ss[m], x) <=> Has(b, x))
          OBVIOUS
        <5> HIDE DEF a, b
        <5>1. /\ a \o b \in Seq(T) /\ Ordered(a \o b)
              /\ \A x : Has(a \o b, x) <=> Has(a, x) \/ Has(b, x)
          BY <5>2, <5>3, ConcatOrdered
        <5> QED
          BY <5>1, <5>4, <5>5
      <4>5. 1..m = 1..(m - 1) \cup {m}
        BY <3>2
      <4>6. ASSUME NEW x PROVE Has(f[m], x) <=> \E j \in 1..m : Has(ss[j], x)
        BY <4>1, <4>4, <4>5
      <4> QED
        BY <3>2, <4>4, <4>6
    <3> QED
      BY <3>3, <3>4
  <2>4. Good(n)
    <3>1. n \in 1..n
      BY <1>3
    <3>2. ~Good(n) => n \in Bad
      BY <3>1
    <3> QED
      BY <2>3, <3>2
  <2> QED
    BY <2>1, <2>4
<1> QED
  BY <1>2, <1>3

-----------------------------------------------------------------------------
(* What the plan consists of.                                              *)
ConfOK ==
  /\ conf.dicts \in Seq([name : STRING, type : {"sync", "async", "none", "unknown"}])
  /\ conf.stages \in Seq([checks : Seq([dict : STRING, depends : Seq(STRING)]), depends : Seq(STRING)])

DictParts(i) ==
  {<<"dict", i>>} \cup (IF conf.dicts[i].type = "async" THEN {<<"outer", i>>, <<"pool", i>>} ELSE {})
CheckParts(s, c) == {<<"check", s, c>>, <<"depends", s, c>>} \cup {<<"pos", s, c, n>> : n \in STRING}
OwnParts(s) == {<<"stage", s>>, <<"checks", s>>, <<"sdepends", s>>} \cup {<<"spos", s, n>> : n \in STRING}
StageParts(s) == OwnParts(s) \cup UNION {CheckParts(s, c) : c \in Checks(s)}
StrParts == {<<"str", Strings[k]>> : k \in DOMAIN Strings}
AllDictParts == UNION {DictParts(i) : i \in DOMAIN conf.dicts}
AllStageParts == UNION {StageParts(s) : s \in DOMAIN conf.stages}
Parts == {Context, Dicts, Stages} \cup StrParts \cup AllDictParts \cup AllStageParts

LEMMA Ranks ==
  ASSUME NEW i, NEW c, NEW n
  PROVE  /\ Rank(Context) = 1 /\ Rank(<<"str", n>>) = 2 /\ Rank(Dicts) = 3 /\ Rank(Stages) = 5
         /\ Rank(<<"dict", i>>) = 4 /\ Rank(<<"outer", i>>) = 4 /\ Rank(<<"pool", i>>) = 4
         /\ Role(<<"dict", i>>) = 1 /\ Role(<<"outer", i>>) = 2 /\ Role(<<"pool", i>>) = 3
         /\ Rank(<<"stage", i>>) = 6 /\ Rank(<<"checks", i>>) = 6 /\ Rank(<<"sdepends", i>>) = 6
         /\ Rank(<<"spos", i, n>>) = 6 /\ Rank(<<"check", i, c>>) = 6 /\ Rank(<<"depends", i, c>>) = 6
         /\ Rank(<<"pos", i, c, n>>) = 6
<1>1. /\ Rank(Context) = 1 /\ Rank(<<"str", n>>) = 2 /\ Rank(Dicts) = 3 /\ Rank(Stages) = 5
      /\ Rank(<<"dict", i>>) = 4 /\ Rank(<<"outer", i>>) = 4 /\ Rank(<<"pool", i>>) = 4
  BY DEF Rank, OfDict, Context, Dicts, Stages
<1>2. Role(<<"dict", i>>) = 1 /\ Role(<<"outer", i>>) = 2 /\ Role(<<"pool", i>>) = 3
  BY DEF Role
<1>3. /\ Rank(<<"stage", i>>) = 6 /\ Rank(<<"checks", i>>) = 6 /\ Rank(<<"sdepends", i>>) = 6
      /\ Rank(<<"spos", i, n>>) = 6 /\ Rank(<<"check", i, c>>) = 6 /\ Rank(<<"depends", i, c>>) = 6
      /\ Rank(<<"pos", i, c, n>>) = 6
  BY DEF Rank, OfDict
<1> QED
  BY <1>1, <1>2, <1>3

LEMMA SingleRanks == Rank(Context) = 1 /\ Rank(Dicts) = 3 /\ Rank(Stages) = 5
BY Ranks

LEMMA RankOfKind == \A t : t[1] \in OfCheck \cup OfStage => Rank(t) = 6
BY DEF Rank, OfCheck, OfStage, OfDict

LEMMA RanksOfParts ==
  /\ \A t \in StrParts : Rank(t) = 2
  /\ \A i : \A t \in DictParts(i) : Rank(t) = 4 /\ t[2] = i /\ t[1] \in OfDict
  /\ \A s, c : \A t \in CheckParts(s, c) : Rank(t) = 6 /\ t[2] = s /\ t[3] = c /\ t[1] \in OfCheck
  /\ \A s : \A t \in OwnParts(s) : Rank(t) = 6 /\ t[2] = s /\ t[1] \in OfStage
  /\ \A s : \A t \in StageParts(s) : Rank(t) = 6 /\ t[2] = s /\ t[1] \in OfStage \cup OfCheck
<1>1. \A t \in StrParts : Rank(t) = 2
  BY Ranks DEF StrParts
<1>2. ASSUME NEW i, NEW t \in DictParts(i) PROVE Rank(t) = 4 /\ t[2] = i /\ t[1] \in OfDict
  <2>1. t = <<"dict", i>> \/ t = <<"outer", i>> \/ t = <<"pool", i>>
    BY DEF DictParts
  <2>2. Rank(t) = 4
    BY <2>1, Ranks
  <2> QED
    BY <2>1, <2>2 DEF OfDict
<1>3. ASSUME NEW s, NEW c, NEW t \in CheckParts(s, c)
      PROVE  Rank(t) = 6 /\ t[2] = s /\ t[3] = c /\ t[1] \in OfCheck
  <2>1. t = <<"check", s, c>> \/ t = <<"depends", s, c>> \/ \E n : t = <<"pos", s, c, n>>
    BY DEF CheckParts
  <2>2. t[2] = s /\ t[3] = c /\ t[1] \in OfCheck
    BY <2>1 DEF OfCheck
  <2> QED
    BY <2>2, RankOfKind
<1>4. ASSUME NEW s, NEW t \in OwnParts(s) PROVE Rank(t) = 6 /\ t[2] = s /\ t[1] \in OfStage
  <2>1. \/ t = <<"stage", s>> \/ t = <<"checks", s>> \/ t = <<"sdepends", s>>
        \/ \E n : t = <<"spos", s, n>>
    BY DEF OwnParts
  <2>2. t[2] = s /\ t[1] \in OfStage
    BY <2>1 DEF OfStage
  <2> QED
    BY <2>2, RankOfKind
<1>5. \A s : \A t \in StageParts(s) : Rank(t) = 6 /\ t[2] = s /\ t[1] \in OfStage \cup OfCheck
  BY <1>3, <1>4 DEF StageParts
<1> QED
  BY <1>1, <1>2, <1>3, <1>4, <1>5

LEMMA PairOrdered ==
  ASSUME NEW T, NEW a \in T, NEW b \in T, Prec(a, b)
  PROVE  <<a, b>> \in Seq(T) /\ Ordered(<<a, b>>) /\ (\A x : Has(<<a, b>>, x) <=> x = a \/ x = b)
<1> DEFINE d == <<a, b>>
<1>1. d \in Seq(T) /\ Len(d) = 2 /\ d[1] = a /\ d[2] = b
  OBVIOUS
<1> HIDE DEF d
<1>2. 1..2 = {1, 2}
  OBVIOUS
<1>3. Ordered(d)
  <2> SUFFICES ASSUME NEW k \in 1..2, NEW l \in 1..2, k < l PROVE Prec(d[k], d[l])
    BY <1>1 DEF Ordered
  <2>1. k = 1 /\ l = 2
    OBVIOUS
  <2> QED
    BY <1>1, <2>1
<1>4. \A x : Has(d, x) <=> x = a \/ x = b
  BY <1>1, <1>2 DEF Has
<1> QED
  BY <1>1, <1>3, <1>4 DEF d

LEMMA OneOrdered ==
  ASSUME NEW T, NEW a \in T
  PROVE  <<a>> \in Seq(T) /\ Ordered(<<a>>) /\ (\A x : Has(<<a>>, x) <=> x = a)
<1> DEFINE d == <<a>>
<1>1. d \in Seq(T) /\ Len(d) = 1 /\ d[1] = a
  OBVIOUS
<1> HIDE DEF d
<1>2. 1..1 = {1}
  OBVIOUS
<1> QED
  BY <1>1, <1>2 DEF Has, Ordered, d

LEMMA NoneOrdered ==
  ASSUME NEW T
  PROVE  <<>> \in Seq(T) /\ Ordered(<<>>) /\ (\A x : ~Has(<<>>, x))
BY DEF Ordered, Has

LEMMA DictPlan ==
  ASSUME ConfOK, NEW i \in DOMAIN conf.dicts
  PROVE  /\ DictThings(i) \in Seq(DictParts(i)) /\ Ordered(DictThings(i))
         /\ \A x : Has(DictThings(i), x) <=> x \in DictParts(i)
<1> DEFINE a == <<"dict", i>>
           b == <<"outer", i>>
           p == <<"pool", i>>
           T == DictParts(i)
           t == IF conf.dicts[i].type = "async" THEN <<b, p>> ELSE <<>>
<1>1. /\ a[2] = i /\ b[2] = i /\ p[2] = i /\ Rank(a) = 4 /\ Rank(b) = 4 /\ Rank(p) = 4
      /\ Role(a) = 1 /\ Role(b) = 2 /\ Role(p) = 3
  BY Ranks
<1>2. T = {a} \cup IF conf.dicts[i].type = "async" THEN {b, p} ELSE {}
  BY DEF DictParts
<1>3. DictThings(i) = <<a>> \o t
  BY DEF DictThings
<1> HIDE DEF a, b, p, T
<1>4. <<a>> \in Seq(T) /\ Ordered(<<a>>) /\ \A x : Has(<<a>>, x) <=> x = a
  BY <1>2, OneOrdered
<1>5. Prec(a, b) /\ Prec(a, p) /\ Prec(b, p)
  BY <1>1 DEF Prec
<1>6. t \in Seq(T) /\ Ordered(t) /\ \A x : Has(t, x) <=> conf.dicts[i].type = "async" /\ (x = b \/ x = p)
  <2>1. CASE conf.dicts[i].type = "async"
    <3>1. b \in T /\ p \in T
      BY <1>2, <2>1
    <3> QED
      BY <1>5, <2>1, <3>1, PairOrdered
  <2>2. CASE ~(conf.dicts[i].type = "async")
    BY <2>2, NoneOrdered
  <2> QED
    BY <2>1, <2>2
<1> HIDE DEF t
<1>7. \A k \in 1..Len(<<a>>) : \A l \in 1..Len(t) : Prec(<<a>>[k], t[l])
  <2> SUFFICES ASSUME NEW k \in 1..Len(<<a>>), NEW l \in 1..Len(t) PROVE Prec(<<a>>[k], t[l])
    OBVIOUS
  <2>1. <<a>>[k] = a
    OBVIOUS
  <2>2. Has(t, t[l])
    BY DEF Has
  <2> QED
    BY <1>5, <1>6, <2>1, <2>2
<1>8. /\ <<a>> \o t \in Seq(T) /\ Ordered(<<a>> \o t)
      /\ \A x : Has(<<a>> \o t, x) <=> Has(<<a>>, x) \/ Has(t, x)
  BY <1>4, <1>6, <1>7, ConcatOrdered
<1>9. \A x : x \in T <=> x = a \/ (conf.dicts[i].type = "async" /\ (x = b \/ x = p))
  BY <1>2
<1> QED
  BY <1>3, <1>4, <1>6, <1>8, <1>9 DEF T

\* Every two parts of a check that stand in this order
LEMMA CheckPrec ==
  ASSUME NEW s, NEW c \in Int, NEW a \in CheckParts(s, c), NEW b \in CheckParts(s, c)
  PROVE  Prec(a, b)
BY RanksOfParts DEF Prec

LEMMA Joined ==
  ASSUME NEW T, NEW s \in Seq(T), NEW t \in Seq(T), Ordered(s), Ordered(t),
         \A x, y : Has(s, x) /\ Has(t, y) => Prec(x, y)
  PROVE  /\ s \o t \in Seq(T) /\ Ordered(s \o t)
         /\ \A x : Has(s \o t, x) <=> Has(s, x) \/ Has(t, x)
<1>1. ASSUME NEW k \in 1..Len(s), NEW l \in 1..Len(t) PROVE Prec(s[k], t[l])
  <2>1. Has(s, s[k]) /\ Has(t, t[l])
    BY DEF Has
  <2> QED
    BY <2>1
<1> QED
  BY <1>1, ConcatOrdered

LEMMA Flattened ==
  ASSUME NEW T, NEW n \in Nat, NEW ss \in [1..n -> Seq(T)],
         \A i \in 1..n : Ordered(ss[i]),
         \A i, j \in 1..n : \A x, y : i < j /\ Has(ss[i], x) /\ Has(ss[j], y) => Prec(x, y)
  PROVE  /\ FlattenSeq(ss) \in Seq(T) /\ Ordered(FlattenSeq(ss))
         /\ \A x : Has(FlattenSeq(ss), x) <=> \E i \in 1..n : Has(ss[i], x)
<1>1. ASSUME NEW i \in 1..n, NEW j \in 1..n, i < j, NEW k \in 1..Len(ss[i]), NEW l \in 1..Len(ss[j])
      PROVE  Prec(ss[i][k], ss[j][l])
  <2>1. Has(ss[i], ss[i][k]) /\ Has(ss[j], ss[j][l])
    BY DEF Has
  <2> QED
    BY <1>1, <2>1
<1> QED
  BY <1>1, FlattenOrdered

\* What a list has is one of the things it is made of.
LEMMA HasPart ==
  ASSUME NEW T, NEW s \in Seq(T), NEW x, Has(s, x)
  PROVE  x \in T
BY DEF Has

CheckConf == [dict : STRING, depends : Seq(STRING)]
StageConf == [checks : Seq(CheckConf), depends : Seq(STRING)]
LEMMA ConfFacts ==
  ASSUME ConfOK
  PROVE  /\ Len(conf.stages) \in Nat /\ DOMAIN conf.stages = 1..Len(conf.stages)
         /\ Len(conf.dicts) \in Nat /\ DOMAIN conf.dicts = 1..Len(conf.dicts)
         /\ \A s \in DOMAIN conf.stages :
              LET stage == conf.stages[s] IN
              /\ s \in Int
              /\ Len(stage.depends) \in Nat /\ DOMAIN stage.depends = 1..Len(stage.depends)
              /\ \A d \in 1..Len(stage.depends) : stage.depends[d] \in STRING
              /\ Len(stage.checks) \in Nat /\ Checks(s) = 1..Len(stage.checks) /\ DOMAIN stage.checks = Checks(s)
              /\ \A c \in Checks(s) :
                   LET check == stage.checks[c] IN
                   /\ c \in Int /\ check.dict \in STRING
                   /\ Len(check.depends) \in Nat /\ DOMAIN check.depends = 1..Len(check.depends)
                   /\ \A d \in 1..Len(check.depends) : check.depends[d] \in STRING
<1>1. conf.stages \in Seq(StageConf)
  BY DEF ConfOK, StageConf, CheckConf
<1>2. /\ Len(conf.stages) \in Nat /\ DOMAIN conf.stages = 1..Len(conf.stages)
      /\ Len(conf.dicts) \in Nat /\ DOMAIN conf.dicts = 1..Len(conf.dicts)
  BY <1>1 DEF ConfOK
<1>3. ASSUME NEW t \in Seq(STRING)
      PROVE  /\ Len(t) \in Nat /\ DOMAIN t = 1..Len(t) /\ \A d \in 1..Len(t) : t[d] \in STRING
  OBVIOUS
<1>4. ASSUME NEW s \in DOMAIN conf.stages
      PROVE  s \in Int /\ conf.stages[s].checks \in Seq(CheckConf) /\ conf.stages[s].depends \in Seq(STRING)
  <2>1. s \in Int /\ conf.stages[s] \in StageConf
    BY <1>1
  <2> QED
    BY <2>1 DEF StageConf
<1>5. ASSUME NEW s \in DOMAIN conf.stages
      PROVE  /\ Len(conf.stages[s].checks) \in Nat /\ Checks(s) = 1..Len(conf.stages[s].checks)
             /\ DOMAIN conf.stages[s].checks = Checks(s)
  BY <1>4 DEF Checks
<1>6. ASSUME NEW s \in DOMAIN conf.stages, NEW c \in Checks(s)
      PROVE  /\ c \in Int /\ conf.stages[s].checks[c].dict \in STRING
             /\ conf.stages[s].checks[c].depends \in Seq(STRING)
  <2>1. c \in Int /\ conf.stages[s].checks[c] \in CheckConf
    BY <1>4, <1>5
  <2> QED
    BY <2>1 DEF CheckConf
<1> QED
  BY <1>2, <1>3, <1>4, <1>5, <1>6

LEMMA Concatenated ==
  ASSUME NEW T, NEW s \in Seq(T), NEW t \in Seq(T), Len(s) >= 2
  PROVE  s \o t \in Seq(T) /\ Len(s \o t) >= 2 /\ (s \o t)[2] = s[2] /\ Len(s \o t) \in Nat
OBVIOUS

LEMMA CheckPlanned ==
  ASSUME ConfOK, NEW s \in DOMAIN conf.stages, NEW c \in Checks(s)
  PROVE  /\ CheckPlan(s, c) \in Seq(CheckParts(s, c)) /\ Ordered(CheckPlan(s, c))
         /\ Has(CheckPlan(s, c), <<"pos", s, c, conf.stages[s].checks[c].dict>>)
<1> DEFINE check == conf.stages[s].checks[c]
           T == CheckParts(s, c)
           u == <<<<"check", s, c>>, <<"pos", s, c, check.dict>>>>
           v == IF check.depends = <<>> THEN <<>> ELSE <<<<"depends", s, c>>>>
           w == [d \in DOMAIN check.depends |-> <<"pos", s, c, check.depends[d]>>]
           n == Len(check.depends)
<1>1. /\ check.dict \in STRING /\ c \in Int
      /\ n \in Nat /\ DOMAIN check.depends = 1..n /\ \A d \in 1..n : check.depends[d] \in STRING
  BY ConfFacts
<1> HIDE DEF n
<1>2. CheckPlan(s, c) = (u \o v) \o w
  BY DEF CheckPlan
<1>3. <<"check", s, c>> \in T /\ <<"depends", s, c>> \in T /\ \A x \in STRING : <<"pos", s, c, x>> \in T
  BY DEF CheckParts
<1> HIDE DEF T
<1>4. u \in Seq(T) /\ Len(u) = 2 /\ u[2] = <<"pos", s, c, check.dict>>
  <2> DEFINE a == <<"check", s, c>>
             b == <<"pos", s, c, check.dict>>
  <2>1. a \in T /\ b \in T
    BY <1>1, <1>3
  <2> HIDE DEF a, b
  <2>2. <<a, b>> \in Seq(T) /\ Len(<<a, b>>) = 2 /\ <<a, b>>[2] = b
    BY <2>1
  <2> QED
    BY <2>2 DEF a, b
<1>5. v \in Seq(T)
  BY <1>3
<1>6. w \in Seq(T)
  <2>1. w \in [1..n -> T]
    BY <1>1, <1>3
  <2> HIDE DEF w
  <2> QED
    BY <1>1, <2>1
<1> HIDE DEF u, v, w
<1>7. (u \o v) \o w \in Seq(T)
  BY <1>4, <1>5, <1>6
<1>8. 2 \in 1..Len((u \o v) \o w) /\ ((u \o v) \o w)[2] = u[2]
  <2> DEFINE x == u \o v
  <2>1. x \in Seq(T) /\ Len(x) >= 2 /\ x[2] = u[2]
    <3>1. u \in Seq(T) /\ v \in Seq(T) /\ Len(u) >= 2
      BY <1>4, <1>5
    <3>2. u \o v \in Seq(T) /\ Len(u \o v) >= 2 /\ (u \o v)[2] = u[2]
      BY <3>1, Concatenated
    <3> QED
      BY <3>2
  <2> HIDE DEF x
  <2>2. Len(x \o w) >= 2 /\ (x \o w)[2] = x[2] /\ Len(x \o w) \in Nat
    BY <1>6, <2>1, Concatenated
  <2> QED
    BY <2>1, <2>2 DEF x
<1>9. ASSUME NEW q \in Seq(T) PROVE Ordered(q)
  BY <1>1, CheckPrec DEF Ordered, T
<1> QED
  BY <1>2, <1>4, <1>7, <1>8, <1>9 DEF Has, T

TailParts(s) == {<<"sdepends", s>>} \cup {<<"spos", s, n>> : n \in STRING}
LEMMA TailPlanned ==
  ASSUME ConfOK, NEW s \in DOMAIN conf.stages
  PROVE  LET stage == conf.stages[s]
             tail  == <<<<"sdepends", s>>>> \o [d \in DOMAIN stage.depends |-> <<"spos", s, stage.depends[d]>>]
         IN  tail \in Seq(TailParts(s))
<1> DEFINE stage == conf.stages[s]
           T == TailParts(s)
           u == <<<<"sdepends", s>>>>
           w == [d \in DOMAIN stage.depends |-> <<"spos", s, stage.depends[d]>>]
           n == Len(stage.depends)
<1>1. <<"sdepends", s>> \in T /\ \A x \in STRING : <<"spos", s, x>> \in T
  BY DEF TailParts
<1> HIDE DEF T
<1>2. u \in Seq(T)
  BY <1>1
<1>3. n \in Nat /\ DOMAIN stage.depends = 1..n /\ \A d \in 1..n : stage.depends[d] \in STRING
  BY ConfFacts
<1> HIDE DEF n
<1>4. w \in [1..n -> T]
  BY <1>1, <1>3
<1> HIDE DEF u, w
<1>5. w \in Seq(T)
  BY <1>3, <1>4
<1>6. u \o w \in Seq(T)
  BY <1>2, <1>5
<1> QED
  BY <1>6 DEF u, w, T

LEMMA StagePrec ==
  ASSUME NEW s \in Int
  PROVE  /\ \A x \in {<<"stage", s>>, <<"checks", s>>} : \A y \in StageParts(s) : Prec(x, y)
         /\ \A x \in StageParts(s) : \A y \in TailParts(s) : Prec(x, y) /\ y \in StageParts(s)
<1>1. ASSUME NEW x \in {<<"stage", s>>, <<"checks", s>>}, NEW y \in StageParts(s) PROVE Prec(x, y)
  <2>1. Rank(x) = 6 /\ x[2] = s /\ x[1] \in {"stage", "checks"}
    <3>1. x = <<"stage", s>> \/ x = <<"checks", s>>
      OBVIOUS
    <3>2. Rank(x) = 6
      BY <3>1, Ranks
    <3> QED
      BY <3>1, <3>2
  <2>2. Rank(y) = 6 /\ y[2] = s
    BY RanksOfParts
  <2> QED
    BY <2>1, <2>2 DEF Prec
<1>2. ASSUME NEW x \in StageParts(s), NEW y \in TailParts(s) PROVE Prec(x, y) /\ y \in StageParts(s)
  <2>1. y = <<"sdepends", s>> \/ \E n \in STRING : y = <<"spos", s, n>>
    BY DEF TailParts
  <2>2. Rank(y) = 6
    BY <2>1, Ranks
  <2>3. y[2] = s /\ y[1] \in {"sdepends", "spos"}
    <3>1. CASE y = <<"sdepends", s>>
      BY <3>1
    <3>2. ASSUME NEW n \in STRING, y = <<"spos", s, n>> PROVE y[2] = s /\ y[1] \in {"sdepends", "spos"}
      BY <3>2
    <3> QED
      BY <2>1, <3>1, <3>2
  <2>4. Rank(x) = 6 /\ x[2] = s
    BY RanksOfParts
  <2>5. y \in StageParts(s)
    BY <2>1 DEF StageParts, OwnParts
  <2> QED
    BY <2>2, <2>3, <2>4, <2>5 DEF Prec
<1> QED
  BY <1>1, <1>2

LEMMA StagePlanned ==
  ASSUME ConfOK, NEW s \in DOMAIN conf.stages
  PROVE  /\ StagePlan(s) \in Seq(StageParts(s)) /\ Ordered(StagePlan(s))
         /\ \A c \in Checks(s) : Has(StagePlan(s), <<"pos", s, c, conf.stages[s].checks[c].dict>>)
<1> DEFINE stage == conf.stages[s]
           T == StageParts(s)
           n == Len(stage.checks)
           ss == [c \in DOMAIN stage.checks |-> CheckPlan(s, c)]
           u == <<<<"stage", s>>, <<"checks", s>>>>
           tail == <<<<"sdepends", s>>>> \o [d \in DOMAIN stage.depends |-> <<"spos", s, stage.depends[d]>>]
           w == IF ~conf.staged \/ stage.depends = <<>> THEN <<>> ELSE tail
<1>1. s \in Int /\ n \in Nat /\ DOMAIN stage.checks = 1..n /\ Checks(s) = 1..n
  BY DEF ConfOK, Checks
<1>2. StagePlan(s) = (u \o FlattenSeq(ss)) \o w
  BY DEF StagePlan
<1> HIDE DEF n
<1>3. ASSUME NEW c \in 1..n
      PROVE  /\ ss[c] \in Seq(CheckParts(s, c)) /\ ss[c] \in Seq(T) /\ Ordered(ss[c])
             /\ Has(ss[c], <<"pos", s, c, conf.stages[s].checks[c].dict>>)
  <2>1. ss[c] = CheckPlan(s, c)
    BY <1>1
  <2>2. CheckParts(s, c) \subseteq T
    BY <1>1 DEF StageParts
  <2>3. /\ ss[c] \in Seq(CheckParts(s, c)) /\ Ordered(ss[c])
        /\ Has(ss[c], <<"pos", s, c, conf.stages[s].checks[c].dict>>)
    BY <1>1, <2>1, CheckPlanned
  <2> HIDE DEF ss, T
  <2>4. ss[c] \in Seq(T)
    BY <2>2, <2>3
  <2> QED
    BY <2>3, <2>4
<1>4. DOMAIN ss = 1..n /\ ss = [c \in 1..n |-> ss[c]]
  BY <1>1
<1> HIDE DEF ss
<1>5. ASSUME NEW c \in 1..n, NEW d \in 1..n, c < d, NEW x, NEW y, Has(ss[c], x), Has(ss[d], y)
      PROVE  Prec(x, y)
  <2>1. x \in CheckParts(s, c) /\ y \in CheckParts(s, d)
    BY <1>3, <1>5, HasPart
  <2>2. /\ Rank(x) = 6 /\ x[2] = s /\ x[3] = c /\ x[1] \in OfCheck
        /\ Rank(y) = 6 /\ y[2] = s /\ y[3] = d /\ y[1] \in OfCheck
    BY <2>1, RanksOfParts
  <2> QED
    BY <1>5, <2>2 DEF Prec
<1>6. /\ FlattenSeq(ss) \in Seq(T) /\ Ordered(FlattenSeq(ss))
      /\ \A x : Has(FlattenSeq(ss), x) <=> \E c \in 1..n : Has(ss[c], x)
  <2>1. ss \in [1..n -> Seq(T)]
    BY <1>3, <1>4
  <2> HIDE DEF T
  <2> QED
    BY <1>1, <1>3, <1>5, <2>1, Flattened
<1>7. u \in Seq(T) /\ Ordered(u) /\ \A x : Has(u, x) <=> x = <<"stage", s>> \/ x = <<"checks", s>>
  <2>1. <<"stage", s>> \in T /\ <<"checks", s>> \in T
    BY DEF StageParts, OwnParts
  <2>2. Prec(<<"stage", s>>, <<"checks", s>>)
    BY <1>1, <2>1, StagePrec
  <2> QED
    BY <2>1, <2>2, PairOrdered
<1>8. w \in Seq(TailParts(s))
  <2>1. tail \in Seq(TailParts(s))
    BY TailPlanned
  <2> QED
    BY <2>1
<1> DEFINE f == FlattenSeq(ss)
<1> HIDE DEF u, w, f
<1>9. w \in Seq(T) /\ Ordered(w)
  <2>1. w \in Seq(T)
    <3>1. \A y \in TailParts(s) : y \in T
      <4>1. <<"stage", s>> \in T
        BY DEF StageParts, OwnParts
      <4> QED
        BY <1>1, <4>1, StagePrec
    <3> HIDE DEF T
    <3> QED
      BY <1>8, <3>1
  <2>2. \A x \in TailParts(s) : \A y \in TailParts(s) : Prec(x, y)
    BY <1>1, StagePrec DEF TailParts, StageParts, OwnParts
  <2>3. Ordered(w)
    BY <1>8, <2>2 DEF Ordered
  <2> QED
    BY <2>1, <2>3
<1>10. /\ u \o f \in Seq(T) /\ Ordered(u \o f)
       /\ \A x : Has(u \o f, x) <=> Has(u, x) \/ Has(f, x)
  <2>1. \A x, y : Has(u, x) /\ Has(f, y) => Prec(x, y)
    <3> SUFFICES ASSUME NEW x, NEW y, Has(u, x), Has(f, y) PROVE Prec(x, y)
      OBVIOUS
    <3>1. y \in T
      BY <1>6, HasPart DEF f
    <3> QED
      BY <1>1, <1>7, <3>1, StagePrec
  <2> HIDE DEF T
  <2> QED
    BY <1>6, <1>7, <2>1, Joined DEF f
<1>11. /\ (u \o f) \o w \in Seq(T) /\ Ordered((u \o f) \o w)
       /\ \A x : Has((u \o f) \o w, x) <=> Has(u \o f, x) \/ Has(w, x)
  <2> DEFINE v == u \o f
  <2>1. v \in Seq(T) /\ Ordered(v)
    BY <1>10
  <2> HIDE DEF v
  <2>2. \A x, y : Has(v, x) /\ Has(w, y) => Prec(x, y)
    <3> SUFFICES ASSUME NEW x, NEW y, Has(v, x), Has(w, y) PROVE Prec(x, y)
      OBVIOUS
    <3>1. x \in T /\ y \in TailParts(s)
      BY <1>8, <2>1, HasPart
    <3> QED
      BY <1>1, <3>1, StagePrec
  <2>3. /\ v \o w \in Seq(T) /\ Ordered(v \o w)
        /\ \A x : Has(v \o w, x) <=> Has(v, x) \/ Has(w, x)
    <3> HIDE DEF T
    <3> QED
      BY <1>9, <2>1, <2>2, Joined
  <2> QED
    BY <2>3 DEF v
<1> QED
  BY <1>1, <1>2, <1>3, <1>6, <1>10, <1>11 DEF f

\* Things of different rank are in order.
LEMMA JoinedByRank ==
  ASSUME NEW T, NEW s \in Seq(T), NEW t \in Seq(T), Ordered(s), Ordered(t),
         \A x, y : Has(s, x) /\ Has(t, y) => Rank(x) < Rank(y)
  PROVE  /\ s \o t \in Seq(T) /\ Ordered(s \o t)
         /\ \A x : Has(s \o t, x) <=> Has(s, x) \/ Has(t, x)
BY Joined DEF Prec

LEMMA PlanFacts ==
  ASSUME ConfOK
  PROVE  /\ Plan \in Seq(Parts) /\ Ordered(Plan)
         /\ Has(Plan, Context) /\ Has(Plan, Dicts) /\ Has(Plan, Stages)
         /\ \A i \in DOMAIN conf.dicts : \A x \in DictParts(i) : Has(Plan, x)
         /\ \A s \in DOMAIN conf.stages : \A c \in Checks(s) :
              Has(Plan, <<"pos", s, c, conf.stages[s].checks[c].dict>>)
<1> DEFINE T == Parts
           nd == Len(conf.dicts)
           ns == Len(conf.stages)
           strs == [k \in DOMAIN Strings |-> <<"str", Strings[k]>>]
           ds == [i \in DOMAIN conf.dicts |-> DictThings(i)]
           ss == [s \in DOMAIN conf.stages |-> StagePlan(s)]
           fd == FlattenSeq(ds)
           fs == FlattenSeq(ss)
<1>1. /\ nd \in Nat /\ DOMAIN conf.dicts = 1..nd /\ ns \in Nat /\ DOMAIN conf.stages = 1..ns
  BY ConfFacts
<1>2. Plan = (((((<<Context>> \o strs) \o <<Dicts>>) \o fd) \o <<Stages>>) \o fs)
  BY DEF Plan
<1>3. ds = [i \in 1..nd |-> ds[i]] /\ ss = [s \in 1..ns |-> ss[s]]
  BY <1>1
<1>4. \A i \in 1..nd : ds[i] = DictThings(i)
  BY <1>1
<1>5. \A s \in 1..ns : ss[s] = StagePlan(s)
  BY <1>1
<1>6. /\ Context \in T /\ Dicts \in T /\ Stages \in T /\ StrParts \subseteq T
      /\ \A i \in 1..nd : DictParts(i) \subseteq T
      /\ \A s \in 1..ns : StageParts(s) \subseteq T
  <2>1. /\ Context \in Parts /\ Dicts \in Parts /\ Stages \in Parts /\ StrParts \subseteq Parts
    BY DEF Parts
  <2>2. ASSUME NEW i \in 1..nd PROVE DictParts(i) \subseteq Parts
    <3>1. DictParts(i) \subseteq AllDictParts
      BY <1>1 DEF AllDictParts
    <3> QED
      BY <3>1 DEF Parts
  <2>3. ASSUME NEW s \in 1..ns PROVE StageParts(s) \subseteq Parts
    <3>1. StageParts(s) \subseteq AllStageParts
      BY <1>1 DEF AllStageParts
    <3> QED
      BY <3>1 DEF Parts
  <2> QED
    BY <2>1, <2>2, <2>3
<1>7. strs \in Seq(T) /\ Ordered(strs) /\ \A x : Has(strs, x) => Rank(x) = 2
  <2>1. Len(Strings) \in Nat /\ DOMAIN Strings = 1..Len(Strings)
    BY DEF Strings
  <2>2. strs \in [1..Len(Strings) -> StrParts]
    BY <2>1 DEF StrParts
  <2> HIDE DEF strs
  <2>3. strs \in Seq(StrParts)
    BY <2>1, <2>2
  <2>4. \A x : Has(strs, x) => Rank(x) = 2
    BY <2>3, HasPart, RanksOfParts
  <2>5. Ordered(strs)
    BY <2>3, RanksOfParts DEF Ordered, Prec
  <2> QED
    BY <1>6, <2>3, <2>4, <2>5
<1> HIDE DEF ds, ss, strs, nd, ns
<1>8. ASSUME NEW i \in 1..nd
      PROVE  /\ ds[i] \in Seq(T) /\ Ordered(ds[i])
             /\ \A x : Has(ds[i], x) => Rank(x) = 4 /\ x[2] = i
             /\ \A x \in DictParts(i) : Has(ds[i], x)
  <2>1. /\ ds[i] \in Seq(DictParts(i)) /\ Ordered(ds[i])
        /\ \A x : Has(ds[i], x) <=> x \in DictParts(i)
    BY <1>1, <1>4, DictPlan
  <2>2. ds[i] \in Seq(T)
    <3>1. DictParts(i) \subseteq T
      BY <1>6
    <3> HIDE DEF T
    <3> QED
      BY <2>1, <3>1
  <2> QED
    BY <2>1, <2>2, RanksOfParts
<1>9. ASSUME NEW s \in 1..ns
      PROVE  /\ ss[s] \in Seq(T) /\ Ordered(ss[s])
             /\ \A x : Has(ss[s], x) => Rank(x) = 6 /\ x[2] = s
             /\ \A c \in Checks(s) : Has(ss[s], <<"pos", s, c, conf.stages[s].checks[c].dict>>)
  <2>1. /\ ss[s] \in Seq(StageParts(s)) /\ Ordered(ss[s])
        /\ \A c \in Checks(s) : Has(ss[s], <<"pos", s, c, conf.stages[s].checks[c].dict>>)
    BY <1>1, <1>5, StagePlanned
  <2>2. ss[s] \in Seq(T)
    <3>1. StageParts(s) \subseteq T
      BY <1>6
    <3> HIDE DEF T
    <3> QED
      BY <2>1, <3>1
  <2>3. \A x : Has(ss[s], x) => x \in StageParts(s)
    BY <2>1, HasPart
  <2> QED
    BY <2>1, <2>2, <2>3, RanksOfParts
<1>10. /\ fd \in Seq(T) /\ Ordered(fd)
       /\ \A x : Has(fd, x) <=> \E i \in 1..nd : Has(ds[i], x)
  <2>1. ds \in [1..nd -> Seq(T)]
    BY <1>3, <1>8
  <2>2. \A i, j \in 1..nd : \A x, y : i < j /\ Has(ds[i], x) /\ Has(ds[j], y) => Prec(x, y)
    BY <1>8 DEF Prec
  <2>3. \A i \in 1..nd : Ordered(ds[i])
    BY <1>8
  <2> HIDE DEF T
  <2> QED
    BY <1>1, <2>1, <2>2, <2>3, Flattened
<1>11. /\ fs \in Seq(T) /\ Ordered(fs)
       /\ \A x : Has(fs, x) <=> \E s \in 1..ns : Has(ss[s], x)
  <2>1. ss \in [1..ns -> Seq(T)]
    BY <1>3, <1>9
  <2>2. \A i, j \in 1..ns : \A x, y : i < j /\ Has(ss[i], x) /\ Has(ss[j], y) => Prec(x, y)
    BY <1>9 DEF Prec
  <2>3. \A i \in 1..ns : Ordered(ss[i])
    BY <1>9
  <2> HIDE DEF T
  <2> QED
    BY <1>1, <2>1, <2>2, <2>3, Flattened
<1> DEFINE a == <<Context>>
           b == <<Dicts>>
           c == <<Stages>>
<1>12. /\ a \in Seq(T) /\ Ordered(a) /\ \A x : Has(a, x) <=> x = Context
       /\ b \in Seq(T) /\ Ordered(b) /\ \A x : Has(b, x) <=> x = Dicts
       /\ c \in Seq(T) /\ Ordered(c) /\ \A x : Has(c, x) <=> x = Stages
  <2> HIDE DEF T
  <2> QED
    BY <1>6, OneOrdered
<1>13. /\ \A x : Has(a, x) => Rank(x) = 1
       /\ \A x : Has(b, x) => Rank(x) = 3
       /\ \A x : Has(c, x) => Rank(x) = 5
       /\ \A x : Has(fd, x) => Rank(x) = 4
       /\ \A x : Has(fs, x) => Rank(x) = 6
  BY <1>8, <1>9, <1>10, <1>11, <1>12, Ranks
<1> HIDE DEF a, b, c, fd, fs, T
<1> DEFINE p1 == a \o strs
<1>14. p1 \in Seq(T) /\ Ordered(p1) /\ \A x : Has(p1, x) <=> Has(a, x) \/ Has(strs, x)
  BY <1>7, <1>12, <1>13, JoinedByRank
<1>15. \A x : Has(p1, x) => Rank(x) \in 1..2
  BY <1>7, <1>13, <1>14
<1> HIDE DEF p1
<1> DEFINE p2 == p1 \o b
<1>16. p2 \in Seq(T) /\ Ordered(p2) /\ \A x : Has(p2, x) <=> Has(p1, x) \/ Has(b, x)
  <2>1. \A x, y : Has(p1, x) /\ Has(b, y) => Rank(x) < Rank(y)
    BY <1>13, <1>15
  <2> QED
    BY <2>1, <1>12, <1>13, <1>14, <1>15, JoinedByRank
<1>17. \A x : Has(p2, x) => Rank(x) \in 1..3
  BY <1>13, <1>15, <1>16
<1> HIDE DEF p2
<1> DEFINE p3 == p2 \o fd
<1>18. p3 \in Seq(T) /\ Ordered(p3) /\ \A x : Has(p3, x) <=> Has(p2, x) \/ Has(fd, x)
  BY <1>10, <1>13, <1>16, <1>17, JoinedByRank
<1>19. \A x : Has(p3, x) => Rank(x) \in 1..4
  BY <1>13, <1>17, <1>18
<1> HIDE DEF p3
<1> DEFINE p4 == p3 \o c
<1>20. p4 \in Seq(T) /\ Ordered(p4) /\ \A x : Has(p4, x) <=> Has(p3, x) \/ Has(c, x)
  <2>1. \A x, y : Has(p3, x) /\ Has(c, y) => Rank(x) < Rank(y)
    BY <1>13, <1>19
  <2> QED
    BY <2>1, <1>12, <1>13, <1>18, <1>19, JoinedByRank
<1>21. \A x : Has(p4, x) => Rank(x) \in 1..5
  BY <1>13, <1>19, <1>20
<1> HIDE DEF p4
<1>22. /\ p4 \o fs \in Seq(T) /\ Ordered(p4 \o fs)
       /\ \A x : Has(p4 \o fs, x) <=> Has(p4, x) \/ Has(fs, x)
  BY <1>11, <1>13, <1>20, <1>21, JoinedByRank
<1>23. Plan = p4 \o fs
  BY <1>2 DEF p4, p3, p2, p1, a, b, c
<1>24. \A i \in 1..nd : \A x \in DictParts(i) : Has(Plan, x)
  BY <1>8, <1>10, <1>18, <1>20, <1>22, <1>23
<1>25. \A s \in 1..ns : \A k \in Checks(s) : Has(Plan, <<"pos", s, k, conf.stages[s].checks[k].dict>>)
  BY <1>9, <1>11, <1>22, <1>23
<1>26. Has(Plan, Context) /\ Has(Plan, Dicts) /\ Has(Plan, Stages)
  BY <1>12, <1>14, <1>16, <1>18, <1>20, <1>22, <1>23
<1> QED
  BY <1>1, <1>22, <1>23, <1>24, <1>25, <1>26 DEF T

-----------------------------------------------------------------------------
LEMMA PlanStays ==
  ASSUME UNCHANGED conf
  PROVE  Plan' = Plan /\ Things' = Things /\ (ConfOK' <=> ConfOK)
<1>1. Plan' = Plan
  BY DEF Plan, DictThings, StagePlan, CheckPlan
<1>2. Things' = Things
  BY <1>1 DEF Things, IsLookup
<1>3. ConfOK' <=> ConfOK
  BY DEF ConfOK
<1> QED
  BY <1>1, <1>2, <1>3

-----------------------------------------------------------------------------
(* What has been made, and what has been undone, at every place.           *)
Reached(t) == \E k \in 1..Len(Plan) : k < step /\ Plan[k] = t
Skippable(t) == t[1] = "dict" /\ conf.dicts[t[2]].type = "none"
Begun(t) == Reached(t) /\ ~Skippable(t)

Undoing == {"check", "stage", "stages", "dicts", "context"}
Unfinished(i) == ~Begun(<<"pool", i>>)
Undone(t) ==
  \/ /\ builder = "stage" /\ Function = "check"
     /\ t[1] \in OfCheck /\ t[2] = Item[2] /\ t[3] = Item[3]
  \/ builder = "stages" /\ Rank(t) = 6 /\ t[2] = Item[2]
  \/ /\ builder = "context" /\ Function = "dicts"
     /\ t = Dicts \/ (Rank(t) = 4 /\ (t[1] = "pool" \/ Unfinished(t[2])))
  \/ builder = "context" /\ Function \in {"check", "stage"} /\ Rank(t) >= 5

PlaceInv ==
  /\ step \in Nat \ {0}
  /\ builder \in {"make", "ready", "gone", "died"} \cup Undoing
  /\ builder \in {"make"} \cup Undoing => step <= Len(Plan)
  /\ builder = "ready" => step = Len(Plan) + 1
  /\ builder = "check" => Function = "check"
  /\ builder \in {"stage", "stages"} => Function \in {"check", "stage"}
  /\ builder = "dicts" => Function = "dicts" /\ Item[1] # "dict"
LifeInv ==
  /\ \A t \in Things : life[t] # "none" <=> Begun(t)
  /\ \A t \in Things : life[t] = "gone" <=> Begun(t) /\ Undone(t)
FieldInv ==
  /\ ctxDicts <=> \E k \in 1..Len(Plan) : k <= step /\ Plan[k] = Stages
  /\ ctxStages <=> builder = "ready"
FoundInv ==
  \A k \in 1..Len(Plan) : k < step /\ Plan[k][1] = "pos" => Found(Plan[k][4])
GoneInv == \A t \in Things : life[t] = "live" => t \in Remains
BuildInv ==
  /\ ConfOK /\ PlaceInv /\ ~twice
  /\ life \in [Things -> {"none", "live", "gone"}]
  /\ builder \in {"make", "ready"} \cup Undoing => LifeInv /\ FieldInv /\ FoundInv
  /\ builder = "gone" => GoneInv

LEMMA PlanList ==
  ASSUME ConfOK
  PROVE  /\ Len(Plan) \in Nat /\ DOMAIN Plan = 1..Len(Plan)
         /\ \A k \in 1..Len(Plan) : Plan[k] \in Parts
         /\ \A t : t \in Things <=> Has(Plan, t) /\ ~IsLookup(t)
         /\ Context \in Things /\ Dicts \in Things /\ Stages \in Things
<1>1. Plan \in Seq(Parts)
  BY PlanFacts
<1>2. /\ Len(Plan) \in Nat /\ DOMAIN Plan = 1..Len(Plan)
      /\ \A k \in 1..Len(Plan) : Plan[k] \in Parts
  BY <1>1
<1>3. \A t : t \in Things <=> Has(Plan, t) /\ ~IsLookup(t)
  BY <1>2 DEF Things, Has
<1>4. ~IsLookup(Context) /\ ~IsLookup(Dicts) /\ ~IsLookup(Stages)
  BY DEF IsLookup, Context, Dicts, Stages
<1> QED
  BY <1>2, <1>3, <1>4, PlanFacts

LEMMA Times ==
  ASSUME ConfOK, step \in 1..Len(Plan), NEW t
  PROVE  /\ Reached(t) => Prec(t, Item)
         /\ Has(Plan, t) /\ ~Prec(Item, t) /\ t # Item => Reached(t)
<1>1. Len(Plan) \in Nat /\ Ordered(Plan)
  BY PlanList, PlanFacts
<1>2. Reached(t) => Prec(t, Item)
  BY <1>1 DEF Reached, Ordered, Item
<1>3. ASSUME NEW k \in 1..Len(Plan), Plan[k] = t, ~Prec(Item, t), t # Item PROVE k < step
  BY <1>1, <1>3 DEF Ordered, Item
<1> QED
  BY <1>2, <1>3 DEF Has, Reached

PartKind(t) ==
  \/ t = Context \/ t = Dicts \/ t = Stages \/ t \in StrParts
  \/ \E i \in DOMAIN conf.dicts : t \in DictParts(i)
  \/ \E s \in DOMAIN conf.stages : t \in OwnParts(s)
  \/ \E s \in DOMAIN conf.stages : \E c \in Checks(s) : t \in CheckParts(s, c)
LEMMA PartKinds == \A t \in Parts : PartKind(t)
<1> SUFFICES ASSUME NEW t \in Parts PROVE PartKind(t)
  OBVIOUS
<1>1. CASE t \in {Context, Dicts, Stages} \cup StrParts
  BY <1>1 DEF PartKind
<1>2. CASE t \in AllDictParts
  BY <1>2 DEF PartKind, AllDictParts
<1>3. CASE t \in AllStageParts
  BY <1>3 DEF PartKind, AllStageParts, StageParts
<1> QED
  BY <1>1, <1>2, <1>3 DEF Parts

LEMMA ThingKinds ==
  ASSUME ConfOK, NEW t \in Things
  PROVE  /\ Rank(t) \in 1..6
         /\ (Rank(t) = 1 <=> t = Context) /\ (Rank(t) = 3 <=> t = Dicts) /\ (Rank(t) = 5 <=> t = Stages)
         /\ Rank(t) = 2 <=> t \in StrParts
         /\ Rank(t) = 4 => t[2] \in DOMAIN conf.dicts /\ t \in DictParts(t[2])
         /\ Rank(t) = 6 =>
              /\ t[2] \in DOMAIN conf.stages
              /\ \/ t \in {<<"stage", t[2]>>, <<"checks", t[2]>>, <<"sdepends", t[2]>>} /\ t[1] \notin OfCheck
                 \/ /\ t[3] \in Checks(t[2]) /\ t[1] \in OfCheck
                    /\ t \in {<<"check", t[2], t[3]>>, <<"depends", t[2], t[3]>>}
<1>1. t \in Parts /\ ~IsLookup(t)
  BY PlanList DEF Has
<1>2. /\ t = Context => Rank(t) = 1
      /\ t = Dicts => Rank(t) = 3
      /\ t = Stages => Rank(t) = 5
      /\ t \in StrParts => Rank(t) = 2
  BY SingleRanks, RanksOfParts
<1>3. CASE t = Context \/ t = Dicts \/ t = Stages \/ t \in StrParts
  <2>1. Rank(t) \in {1, 2, 3, 5}
    BY <1>2, <1>3
  <2> QED
    BY <1>2, <1>3, <2>1
<1>6. ASSUME NEW i \in DOMAIN conf.dicts, t \in DictParts(i)
      PROVE  Rank(t) = 4 /\ t[2] \in DOMAIN conf.dicts /\ t \in DictParts(t[2])
  BY <1>6, RanksOfParts
<1>7. ASSUME NEW s \in DOMAIN conf.stages, t \in OwnParts(s)
      PROVE  /\ Rank(t) = 6 /\ t[2] \in DOMAIN conf.stages
             /\ t \in {<<"stage", t[2]>>, <<"checks", t[2]>>, <<"sdepends", t[2]>>} /\ t[1] \notin OfCheck
  <2>1. Rank(t) = 6 /\ t[2] = s /\ t[1] \in OfStage
    BY <1>7, RanksOfParts
  <2>2. t \in {<<"stage", s>>, <<"checks", s>>, <<"sdepends", s>>}
    BY <1>1, <1>7 DEF OwnParts, IsLookup
  <2>3. OfStage \cap OfCheck = {}
    BY DEF OfStage, OfCheck
  <2> QED
    BY <2>1, <2>2, <2>3
<1>8. ASSUME NEW s \in DOMAIN conf.stages, NEW c \in Checks(s), t \in CheckParts(s, c)
      PROVE  /\ Rank(t) = 6 /\ t[2] \in DOMAIN conf.stages /\ t[3] \in Checks(t[2]) /\ t[1] \in OfCheck
             /\ t \in {<<"check", t[2], t[3]>>, <<"depends", t[2], t[3]>>}
  <2>1. Rank(t) = 6 /\ t[2] = s /\ t[3] = c /\ t[1] \in OfCheck
    BY <1>8, RanksOfParts
  <2>2. t \in {<<"check", s, c>>, <<"depends", s, c>>}
    BY <1>1, <1>8 DEF CheckParts, IsLookup
  <2> QED
    BY <2>1, <2>2
<1>11. PartKind(t)
  BY <1>1, PartKinds
<1>12. CASE \E i \in DOMAIN conf.dicts : t \in DictParts(i)
  BY <1>2, <1>6, <1>12
<1>13. CASE \E s \in DOMAIN conf.stages : t \in OwnParts(s)
  BY <1>2, <1>7, <1>13
<1>14. CASE \E s \in DOMAIN conf.stages : \E c \in Checks(s) : t \in CheckParts(s, c)
  BY <1>2, <1>8, <1>14
<1> QED
  BY <1>3, <1>11, <1>12, <1>13, <1>14 DEF PartKind

LEMMA ItemKinds ==
  ASSUME ConfOK, step \in 1..Len(Plan)
  PROVE  /\ Item \in Parts /\ Rank(Item) \in 1..6
         /\ Function \in {"check", "stage", "dicts", "context"}
         /\ Function = "check" =>
              /\ Item[2] \in DOMAIN conf.stages /\ Item[3] \in Checks(Item[2])
              /\ Item \in CheckParts(Item[2], Item[3])
         /\ Function = "stage" => Item[2] \in DOMAIN conf.stages /\ Item \in OwnParts(Item[2])
         /\ Function \in {"check", "stage"} <=> Rank(Item) = 6
         /\ Function = "dicts" => Item[2] \in DOMAIN conf.dicts /\ Item \in DictParts(Item[2])
         /\ Function = "dicts" <=> Rank(Item) = 4
         /\ Rank(Item) = 5 => Item = Stages
<1>1. Item \in Parts
  BY PlanList DEF Item
<1>2. PartKind(Item)
  BY <1>1, PartKinds
<1>3. CASE Item = Context \/ Item = Dicts \/ Item = Stages \/ Item \in StrParts
  <2>1. Item[1] \in {"ctx", "dicts", "stages", "str"}
    BY <1>3 DEF Context, Dicts, Stages, StrParts
  <2>2. Function = "context"
    BY <2>1 DEF Function
  <2>3. Rank(Item) \in {1, 2, 3, 5} /\ (Rank(Item) = 5 => Item = Stages)
    BY <1>3, SingleRanks, RanksOfParts
  <2> QED
    BY <1>1, <2>2, <2>3
<1>4. ASSUME NEW i \in DOMAIN conf.dicts, Item \in DictParts(i)
      PROVE  Function = "dicts" /\ Rank(Item) = 4 /\ Item[2] \in DOMAIN conf.dicts /\ Item \in DictParts(Item[2])
  <2>1. Rank(Item) = 4 /\ Item[2] = i /\ Item[1] \in OfDict
    BY <1>4, RanksOfParts
  <2>2. Function = "dicts"
    BY <2>1 DEF Function, OfDict
  <2> QED
    BY <1>4, <2>1, <2>2
<1>5. ASSUME NEW s \in DOMAIN conf.stages, Item \in OwnParts(s)
      PROVE  Function = "stage" /\ Rank(Item) = 6 /\ Item[2] \in DOMAIN conf.stages /\ Item \in OwnParts(Item[2])
  <2>1. Rank(Item) = 6 /\ Item[2] = s /\ Item[1] \in OfStage
    BY <1>5, RanksOfParts
  <2>2. Function = "stage"
    BY <2>1 DEF Function, OfStage
  <2> QED
    BY <1>5, <2>1, <2>2
<1>6. ASSUME NEW s \in DOMAIN conf.stages, NEW c \in Checks(s), Item \in CheckParts(s, c)
      PROVE  /\ Function = "check" /\ Rank(Item) = 6 /\ Item[2] \in DOMAIN conf.stages
             /\ Item[3] \in Checks(Item[2]) /\ Item \in CheckParts(Item[2], Item[3])
  <2>1. Rank(Item) = 6 /\ Item[2] = s /\ Item[3] = c /\ Item[1] \in OfCheck
    BY <1>6, RanksOfParts
  <2>2. Function = "check"
    BY <2>1 DEF Function, OfCheck
  <2> QED
    BY <1>6, <2>1, <2>2
<1> QED
  BY <1>1, <1>2, <1>3, <1>4, <1>5, <1>6 DEF PartKind

-----------------------------------------------------------------------------
LEMMA PlaceStays ==
  ASSUME UNCHANGED <<conf, step>>
  PROVE  /\ Plan' = Plan /\ Things' = Things /\ (ConfOK' <=> ConfOK)
         /\ Item' = Item /\ Function' = Function
         /\ \A t : Reached(t)' <=> Reached(t)
         /\ \A t : Begun(t)' <=> Begun(t)
<1>1. Plan' = Plan /\ Things' = Things /\ (ConfOK' <=> ConfOK)
  BY PlanStays
<1>2. Item' = Item
  BY <1>1 DEF Item
<1>3. Function' = Function
  BY <1>2 DEF Function
<1>4. \A t : Reached(t)' <=> Reached(t)
  BY <1>1 DEF Reached
<1>5. \A t : Begun(t)' <=> Begun(t)
  BY <1>4 DEF Begun, Skippable
<1> QED
  BY <1>1, <1>2, <1>3, <1>4, <1>5

LEMMA FieldsStay ==
  ASSUME FieldInv, FoundInv, UNCHANGED <<conf, step, ctxDicts, ctxStages>>,
         builder' = "ready" <=> builder = "ready"
  PROVE  FieldInv' /\ FoundInv'
<1>1. Plan' = Plan
  BY PlanStays
<1>2. FieldInv'
  BY <1>1 DEF FieldInv
<1>3. \A name : Found(name)' <=> Found(name)
  BY DEF Found, Same, Empty
<1>4. FoundInv'
  BY <1>1, <1>3 DEF FoundInv
<1> QED
  BY <1>2, <1>4

(* What undoes frees what is there, and all that is to be undone by then.  *)
LEMMA UndoKeeps ==
  ASSUME BuildInv, builder \in Undoing, builder' \in Undoing, PlaceInv',
         UNCHANGED <<conf, step, ctxDicts, ctxStages>>,
         NEW S, S \subseteq Things, Free(S),
         \A t \in S : Begun(t) /\ ~Undone(t),
         \A t \in Things : Begun(t) => (Undone(t)' <=> Undone(t) \/ t \in S)
  PROVE  BuildInv'
<1>1. LifeInv /\ FieldInv /\ FoundInv /\ ~twice /\ ConfOK /\ life \in [Things -> {"none", "live", "gone"}]
  BY DEF BuildInv
<1>2. Things' = Things /\ ConfOK' /\ \A t : Begun(t)' <=> Begun(t)
  BY <1>1, PlaceStays
<1>3. life' = [t \in Things |-> IF t \in S THEN "gone" ELSE life[t]]
  BY DEF Free
<1>4. life' \in [Things -> {"none", "live", "gone"}]
  BY <1>1, <1>3
<1>5. \A t \in S : life[t] = "live"
  BY <1>1 DEF LifeInv
<1>6. ~twice'
  BY <1>1, <1>5 DEF Free
<1>7. LifeInv'
  <2>1. \A t \in Things : life'[t] # "none" <=> Begun(t)
    BY <1>1, <1>3, <1>5 DEF LifeInv
  <2>2. \A t \in Things : life'[t] = "gone" <=> Begun(t) /\ Undone(t)'
    BY <1>1, <1>3 DEF LifeInv
  <2> QED
    BY <1>2, <2>1, <2>2 DEF LifeInv
<1>8. builder # "ready" /\ builder' # "ready" /\ builder' # "gone"
  BY DEF Undoing
<1>9. FieldInv' /\ FoundInv'
  BY <1>1, <1>8, FieldsStay
<1> QED
  BY <1>2, <1>4, <1>6, <1>7, <1>8, <1>9 DEF BuildInv

LEMMA BuildStarts ==
  ASSUME NEW c, BuildStart(c),
         c.dicts \in Seq([name : STRING, type : {"sync", "async", "none", "unknown"}]),
         c.stages \in Seq([checks : Seq([dict : STRING, depends : Seq(STRING)]), depends : Seq(STRING)])
  PROVE  BuildInv
<1>1. ConfOK
  BY DEF ConfOK, BuildStart
<1>2. /\ builder = "make" /\ step = 1 /\ ~twice /\ ~ctxDicts /\ ~ctxStages
      /\ life = [t \in Things |-> "none"]
  BY DEF BuildStart
<1>3. Len(Plan) \in Nat /\ Has(Plan, Context) /\ Has(Plan, Stages) /\ Ordered(Plan)
  BY <1>1, PlanList, PlanFacts
<1>4. 1 \in 1..Len(Plan)
  BY <1>3 DEF Has
<1>5. PlaceInv
  BY <1>2, <1>3, <1>4 DEF PlaceInv, Undoing
<1>6. \A t : ~Reached(t)
  BY <1>2, <1>3 DEF Reached
<1>7. \A t : ~Undone(t)
  BY <1>2 DEF Undone
<1>8. LifeInv
  BY <1>2, <1>6, <1>7 DEF LifeInv, Begun
<1>9. FieldInv
  <2>1. ASSUME NEW k \in 1..Len(Plan), k <= step, Plan[k] = Stages PROVE FALSE
    <3>1. k = 1
      BY <1>2, <1>3, <2>1
    <3>2. PICK l \in 1..Len(Plan) : Plan[l] = Context
      BY <1>3 DEF Has
    <3>3. Context # Stages
      BY DEF Context, Stages
    <3>4. k < l
      BY <1>3, <2>1, <3>1, <3>2, <3>3
    <3>5. Prec(Stages, Context)
      BY <1>3, <2>1, <3>2, <3>4 DEF Ordered
    <3> QED
      BY <3>5, SingleRanks DEF Prec
  <2> QED
    BY <1>2, <2>1 DEF FieldInv
<1>10. FoundInv
  BY <1>2, <1>3 DEF FoundInv
<1> QED
  BY <1>1, <1>2, <1>5, <1>8, <1>9, <1>10 DEF BuildInv

(* One more thing is there, or a name has been found.                      *)
LEMMA MadeKeeps ==
  ASSUME BuildInv, builder = "make", Made,
         life' \in [Things -> {"none", "live", "gone"}],
         \A t \in Things : life'[t] = IF t = Item /\ ~Skippable(t) THEN "live" ELSE life[t],
         Item[1] = "pos" => Found(Item[4])
  PROVE  BuildInv'
<1>1. LifeInv /\ FieldInv /\ FoundInv /\ ~twice /\ ConfOK /\ PlaceInv
  BY DEF BuildInv
<1>2. Plan' = Plan /\ Things' = Things /\ ConfOK' /\ conf' = conf
  BY <1>1, PlanStays DEF Made
<1>3. Len(Plan) \in Nat /\ step \in 1..Len(Plan)
  BY <1>1, PlanList DEF PlaceInv
<1>4. step' = step + 1 /\ step' \in Nat \ {0}
  BY <1>3 DEF Made
<1>5. builder' \in {"make", "ready"} /\ (builder' = "ready" <=> step = Len(Plan)) /\ builder' # "gone"
  BY DEF Made
<1>6. PlaceInv'
  BY <1>2, <1>3, <1>4, <1>5 DEF PlaceInv, Undoing
<1>7. ASSUME NEW t PROVE Reached(t)' <=> Reached(t) \/ t = Item
  <2>1. \A k \in 1..Len(Plan) : k < step' <=> k < step \/ k = step
    BY <1>3, <1>4
  <2> QED
    BY <1>2, <1>3, <2>1 DEF Reached, Item
<1>8. \A t : Begun(t)' <=> Begun(t) \/ (t = Item /\ ~Skippable(t))
  BY <1>2, <1>7 DEF Begun, Skippable
<1>9. \A t : ~Undone(t) /\ ~Undone(t)'
  BY <1>5 DEF Undone
<1>10. LifeInv'
  BY <1>1, <1>2, <1>8, <1>9 DEF LifeInv
<1>11. FieldInv'
  <2>1. \A k \in 1..Len(Plan) : k <= step' <=> k <= step \/ k = step + 1
    BY <1>3, <1>4
  <2>2. ctxDicts' <=> ctxDicts \/ (step < Len(Plan) /\ Plan[step + 1] = Stages)
    BY <1>1 DEF Made, FieldInv
  <2>3. step + 1 \in 1..Len(Plan) <=> step < Len(Plan)
    BY <1>3
  <2>4. ctxDicts' <=> \E k \in 1..Len(Plan) : k <= step' /\ Plan[k] = Stages
    BY <1>1, <2>1, <2>2, <2>3 DEF FieldInv
  <2>5. ctxStages' <=> builder' = "ready"
    BY <1>1, <1>5 DEF Made, FieldInv
  <2> QED
    BY <1>2, <2>4, <2>5 DEF FieldInv
<1>12. FoundInv'
  <2>1. \A name : Found(name)' <=> Found(name)
    BY <1>2 DEF Found, Same, Empty
  <2>2. \A k \in 1..Len(Plan) : k < step' => k < step \/ k = step
    BY <1>3, <1>4
  <2> QED
    BY <1>1, <1>2, <2>1, <2>2 DEF FoundInv, Item
<1>13. ~twice'
  BY <1>1 DEF Made
<1> QED
  BY <1>2, <1>5, <1>6, <1>10, <1>11, <1>12, <1>13 DEF BuildInv

LEMMA MakesKeep == BuildInv /\ (Make \/ Resolve) => BuildInv'
<1> SUFFICES ASSUME BuildInv, Make \/ Resolve PROVE BuildInv'
  OBVIOUS
<1>1. /\ life \in [Things -> {"none", "live", "gone"}] /\ ConfOK /\ builder = "make" /\ Made
      /\ step \in 1..Len(Plan)
  BY PlanList DEF BuildInv, PlaceInv, Make, Resolve
<1>2. CASE Make
  <2>1. Skipped <=> Skippable(Item)
    BY DEF Skipped, Skippable, Type
  <2>2. Item \in Things
    BY <1>1, <1>2, PlanList DEF Make, Item, Has
  <2>3. life' = IF Skipped THEN life ELSE [life EXCEPT ![Item] = "live"]
    BY <1>2 DEF Make
  <2>4. /\ life' \in [Things -> {"none", "live", "gone"}]
        /\ \A t \in Things : life'[t] = IF t = Item /\ ~Skippable(t) THEN "live" ELSE life[t]
    BY <1>1, <2>1, <2>2, <2>3
  <2>5. Item[1] # "pos"
    BY <1>2 DEF Make, IsLookup
  <2> QED
    BY <1>1, <2>4, <2>5, MadeKeeps
<1>3. CASE Resolve
  <2>1. Item \notin Things
    BY <1>1, <1>3, PlanList DEF Resolve
  <2>2. life' = life
    BY <1>3 DEF Resolve
  <2>3. Item[1] = "pos" => Found(Item[4])
    BY <1>3 DEF Resolve, Wanted
  <2> QED
    BY <1>1, <2>1, <2>2, <2>3, MadeKeeps
<1> QED
  BY <1>2, <1>3

LEMMA FailsKeep == BuildInv /\ (MakeFails \/ ResolveDies) => BuildInv'
<1> SUFFICES ASSUME BuildInv, MakeFails \/ ResolveDies PROVE BuildInv'
  OBVIOUS
<1>1. /\ life \in [Things -> {"none", "live", "gone"}] /\ ConfOK /\ builder = "make" /\ ~twice
      /\ step \in 1..Len(Plan) /\ LifeInv /\ FieldInv /\ FoundInv /\ PlaceInv
  BY PlanList DEF BuildInv, PlaceInv, MakeFails, ResolveDies
<1>2. UNCHANGED <<conf, step, life, ctxDicts, ctxStages, twice>>
  BY DEF MakeFails, ResolveDies
<1>3. /\ Plan' = Plan /\ Things' = Things /\ ConfOK' /\ Item' = Item /\ Function' = Function
      /\ \A t : Begun(t)' <=> Begun(t)
  BY <1>1, <1>2, PlaceStays
<1>4. builder' = "died" \/ (builder' = Function /\ Item[1] # "dict")
  BY DEF MakeFails, ResolveDies
<1>5. Function \in {"check", "stage", "dicts", "context"}
  BY <1>1, ItemKinds
<1>6. PlaceInv'
  BY <1>1, <1>2, <1>3, <1>4, <1>5 DEF PlaceInv, Undoing
<1>7. builder' # "ready" /\ builder' # "gone"
  BY <1>4, <1>5
<1>8. CASE builder' = "died"
  BY <1>1, <1>2, <1>3, <1>6, <1>8 DEF BuildInv, Undoing
<1>9. CASE builder' = Function
  <2>1. \A t : ~Undone(t)
    BY <1>1 DEF Undone
  <2>2. \A t : ~Undone(t)'
    BY <1>3, <1>5, <1>9 DEF Undone
  <2>3. LifeInv'
    BY <1>1, <1>2, <1>3, <2>1, <2>2 DEF LifeInv
  <2>4. FieldInv' /\ FoundInv'
    BY <1>1, <1>2, <1>7, FieldsStay
  <2> QED
    BY <1>1, <1>2, <1>3, <1>6, <1>7, <2>3, <2>4 DEF BuildInv
<1> QED
  BY <1>4, <1>8, <1>9

-----------------------------------------------------------------------------
(* Each function undoes what it, and only it, has made.                    *)
LEMMA UndoFacts ==
  ASSUME BuildInv, builder \in Undoing
  PROVE  /\ ConfOK /\ PlaceInv /\ LifeInv /\ FieldInv /\ step \in 1..Len(Plan)
         /\ \A S : Ever(S) = {t \in S \cap Things : Begun(t)}
         /\ \A t \in Things : Begun(t) => Reached(t) /\ Prec(t, Item)
         /\ \A s \in DOMAIN conf.stages : s \in Nat \ {0}
<1>1. ConfOK /\ PlaceInv /\ LifeInv /\ FieldInv /\ step \in 1..Len(Plan)
  BY PlanList DEF BuildInv, PlaceInv
<1>2. \A S : Ever(S) = {t \in S \cap Things : Begun(t)}
  BY <1>1 DEF Ever, LifeInv
<1>3. \A t \in Things : Begun(t) => Reached(t) /\ Prec(t, Item)
  BY <1>1, Times DEF Begun
<1>4. \A s \in DOMAIN conf.stages : s \in Nat \ {0}
  BY <1>1, ConfFacts
<1> QED
  BY <1>1, <1>2, <1>3, <1>4

LEMMA UndoPlace ==
  ASSUME PlaceInv, UNCHANGED <<conf, step>>, builder \in Undoing,
         \/ builder' = "stage" /\ Function \in {"check", "stage"}
         \/ builder' = "stages" /\ Function \in {"check", "stage"}
         \/ builder' = "context"
  PROVE  PlaceInv'
BY PlaceStays DEF PlaceInv, Undoing

LEMMA UndoCheckKeeps == BuildInv /\ UndoCheck => BuildInv'
<1> SUFFICES ASSUME BuildInv, UndoCheck PROVE BuildInv'
  OBVIOUS
<1> DEFINE s == Item[2]
           c == Item[3]
<1>1. /\ builder = "check" /\ builder' = "stage" /\ builder \in Undoing /\ builder' \in Undoing
      /\ UNCHANGED <<conf, step, ctxDicts, ctxStages>>
  BY DEF UndoCheck, Undoing
<1>2. /\ ConfOK /\ PlaceInv /\ step \in 1..Len(Plan) /\ Function = "check"
      /\ \A S : Ever(S) = {t \in S \cap Things : Begun(t)}
  BY <1>1, UndoFacts DEF PlaceInv
<1>3. PlaceInv'
  BY <1>1, <1>2, UndoPlace
<1>4. PICK S : S = CheckFree(s, c)
  OBVIOUS
<1>5. Free(S)
  BY <1>4 DEF UndoCheck
<1>6. \A t : t \in S <=> t \in Things /\ Begun(t) /\ (t = <<"check", s, c>> \/ t = <<"depends", s, c>>)
  BY <1>2, <1>4 DEF CheckFree
<1>7. \A t : ~Undone(t)
  BY <1>1 DEF Undone
<1>8. ASSUME NEW t \in Things, Begun(t) PROVE Undone(t)' <=> t \in S
  <2>1. Undone(t)' <=> t[1] \in OfCheck /\ t[2] = s /\ t[3] = c
    BY <1>1, <1>2, PlaceStays DEF Undone
  <2>2. t = <<"check", s, c>> \/ t = <<"depends", s, c>> => t[1] \in OfCheck /\ t[2] = s /\ t[3] = c
    BY DEF OfCheck
  <2>3. t[1] \in OfCheck => Rank(t) = 6
    BY DEF Rank, OfCheck, OfDict
  <2>4. t[1] \in OfCheck /\ t[2] = s /\ t[3] = c => t = <<"check", s, c>> \/ t = <<"depends", s, c>>
    BY <1>2, <2>3, ThingKinds
  <2> QED
    BY <1>6, <1>8, <2>1, <2>2, <2>4
<1> QED
  BY <1>1, <1>3, <1>5, <1>6, <1>7, <1>8, UndoKeeps

\* What is freed with a stage and some of its checks
OfOwn(t, s) == t = <<"stage", s>> \/ t = <<"checks", s>> \/ t = <<"sdepends", s>>
LEMMA StageFreeIs ==
  ASSUME \A S : Ever(S) = {t \in S \cap Things : Begun(t)}, NEW s, NEW C, NEW t
  PROVE  t \in StageFree(s, C) <=>
           /\ t \in Things /\ Begun(t)
           /\ OfOwn(t, s) \/ \E c \in C : t = <<"check", s, c>> \/ t = <<"depends", s, c>>
<1>1. \A c : t \in CheckFree(s, c) <=> t \in Things /\ Begun(t) /\ (t = <<"check", s, c>> \/ t = <<"depends", s, c>>)
  BY DEF CheckFree
<1>2. t \in Ever({<<"stage", s>>, <<"checks", s>>, <<"sdepends", s>>}) <=> t \in Things /\ Begun(t) /\ OfOwn(t, s)
  BY DEF OfOwn
<1>3. t \in StageFree(s, C) <=>
        t \in Ever({<<"stage", s>>, <<"checks", s>>, <<"sdepends", s>>}) \/ \E c \in C : t \in CheckFree(s, c)
  BY DEF StageFree
<1> QED
  BY <1>1, <1>2, <1>3

LEMMA OwnIs ==
  ASSUME NEW s, NEW t, OfOwn(t, s)
  PROVE  Rank(t) = 6 /\ t[2] = s /\ t[1] \notin OfCheck
<1>1. t = <<"stage", s>> \/ t = <<"checks", s>> \/ t = <<"sdepends", s>>
  BY DEF OfOwn
<1>2. t[2] = s /\ t[1] \in OfStage /\ t[1] \notin OfCheck
  BY <1>1 DEF OfCheck, OfStage
<1> QED
  BY <1>2, RankOfKind

LEMMA CheckIs ==
  ASSUME NEW s, NEW c, NEW t, t = <<"check", s, c>> \/ t = <<"depends", s, c>>
  PROVE  Rank(t) = 6 /\ t[2] = s /\ t[3] = c /\ t[1] \in OfCheck
<1>1. t[2] = s /\ t[3] = c /\ t[1] \in OfCheck
  BY DEF OfCheck
<1> QED
  BY <1>1, RankOfKind

\* All of a stage, if all of its checks
LEMMA StageFreeAll ==
  ASSUME ConfOK, \A S : Ever(S) = {t \in S \cap Things : Begun(t)}, NEW s, NEW t \in Things
  PROVE  t \in StageFree(s, Checks(s)) <=> Begun(t) /\ Rank(t) = 6 /\ t[2] = s
<1>1. OfOwn(t, s) => Rank(t) = 6 /\ t[2] = s
  BY OwnIs
<1>2. ASSUME NEW c, t = <<"check", s, c>> \/ t = <<"depends", s, c>> PROVE Rank(t) = 6 /\ t[2] = s
  BY <1>2, CheckIs
<1>3. ASSUME Rank(t) = 6, t[2] = s
      PROVE  OfOwn(t, s) \/ \E c \in Checks(s) : t = <<"check", s, c>> \/ t = <<"depends", s, c>>
  BY <1>3, ThingKinds DEF OfOwn
<1> QED
  BY <1>1, <1>2, <1>3, StageFreeIs

LEMMA UndoStageKeeps == BuildInv /\ UndoStage => BuildInv'
<1> SUFFICES ASSUME BuildInv, UndoStage PROVE BuildInv'
  OBVIOUS
<1> DEFINE s == Item[2]
<1>1. /\ builder = "stage" /\ builder' = "stages" /\ builder \in Undoing /\ builder' \in Undoing
      /\ UNCHANGED <<conf, step, ctxDicts, ctxStages>>
  BY DEF UndoStage, Undoing
<1>2. /\ ConfOK /\ PlaceInv /\ step \in 1..Len(Plan) /\ Function \in {"check", "stage"}
      /\ \A S : Ever(S) = {t \in S \cap Things : Begun(t)}
      /\ \A t \in Things : Begun(t) => Reached(t) /\ Prec(t, Item)
  BY <1>1, UndoFacts DEF PlaceInv
<1>3. PlaceInv'
  BY <1>1, <1>2, UndoPlace
<1>4. PICK C : C = ChecksBefore
  OBVIOUS
<1>5. PICK S : S = StageFree(s, C)
  OBVIOUS
<1>6. Free(S)
  BY <1>4, <1>5 DEF UndoStage
<1>7. S \subseteq Things
  BY <1>2, <1>5, StageFreeIs
<1>8. \A t \in Things : Undone(t)' <=> Rank(t) = 6 /\ t[2] = s
  BY <1>1, <1>2, PlaceStays DEF Undone
<1>9. CASE Function = "stage"
  <2>1. C = Checks(s)
    BY <1>4, <1>9 DEF ChecksBefore
  <2>2. \A t : ~Undone(t)
    BY <1>1, <1>9 DEF Undone
  <2>3. \A t \in Things : t \in S <=> Begun(t) /\ Rank(t) = 6 /\ t[2] = s
    BY <1>2, <1>5, <2>1, StageFreeAll
  <2>4. \A t \in S : Begun(t) /\ ~Undone(t)
    BY <1>7, <2>2, <2>3
  <2>5. \A t \in Things : Begun(t) => (Undone(t)' <=> Undone(t) \/ t \in S)
    BY <1>8, <2>2, <2>3
  <2> QED
    BY <1>1, <1>3, <1>6, <1>7, <2>4, <2>5, UndoKeeps
<1>10. CASE Function = "check"
  <2> DEFINE c == Item[3]
  <2>1. s \in DOMAIN conf.stages /\ c \in Checks(s) /\ Item \in CheckParts(s, c)
    BY <1>2, <1>10, ItemKinds
  <2>2. Rank(Item) = 6 /\ Item[1] \in OfCheck
    BY <2>1, RanksOfParts
  <2>3. C = 1..(c - 1) /\ Checks(s) \subseteq Nat \ {0} /\ c \in Nat
    <3>1. C = 1..(c - 1)
      BY <1>4, <1>10 DEF ChecksBefore
    <3>2. Len(conf.stages[s].checks) \in Nat /\ Checks(s) = 1..Len(conf.stages[s].checks)
      BY <1>2, <2>1, ConfFacts
    <3> QED
      BY <2>1, <3>1, <3>2
  <2>4. \A t : Undone(t) <=> t[1] \in OfCheck /\ t[2] = s /\ t[3] = c
    BY <1>1, <1>10 DEF Undone
  <2>5. ASSUME NEW t \in S PROVE Begun(t) /\ ~Undone(t) /\ Rank(t) = 6 /\ t[2] = s
    <3>1. /\ t \in Things /\ Begun(t)
          /\ OfOwn(t, s) \/ \E d \in C : t = <<"check", s, d>> \/ t = <<"depends", s, d>>
      BY <1>2, <1>5, StageFreeIs
    <3>2. CASE OfOwn(t, s)
      <4>1. Rank(t) = 6 /\ t[2] = s /\ t[1] \notin OfCheck
        BY <3>2, OwnIs
      <4> QED
        BY <2>4, <3>1, <4>1
    <3>3. ASSUME NEW d \in C, t = <<"check", s, d>> \/ t = <<"depends", s, d>>
          PROVE  Rank(t) = 6 /\ t[2] = s /\ t[3] # c
      <4>1. d # c
        BY <2>3, <3>3
      <4> QED
        BY <3>3, <4>1, CheckIs
    <3> QED
      BY <2>4, <3>1, <3>2, <3>3
  <2>6. ASSUME NEW t \in Things, Begun(t), Rank(t) = 6, t[2] = s PROVE Undone(t) \/ t \in S
    <3>1. CASE OfOwn(t, s)
      BY <1>2, <1>5, <2>6, <3>1, StageFreeIs
    <3>2. CASE ~OfOwn(t, s)
      <4>1. /\ t[3] \in Checks(s) /\ t[1] \in OfCheck
            /\ t = <<"check", s, t[3]>> \/ t = <<"depends", s, t[3]>>
        BY <1>2, <2>6, <3>2, ThingKinds DEF OfOwn
      <4>2. Prec(t, Item)
        BY <1>2, <2>6
      <4>3. t[1] \notin {"stage", "checks"} /\ Item[1] \notin {"sdepends", "spos"}
        BY <2>2, <4>1 DEF OfCheck
      <4>4. s \in Nat
        BY <1>2, <2>1, ConfFacts
      <4>5. t[3] <= c
        BY <2>2, <2>6, <4>2, <4>3, <4>4 DEF Prec
      <4>6. t[3] = c \/ t[3] \in C
        BY <2>3, <4>1, <4>5
      <4> QED
        BY <1>2, <1>5, <2>4, <2>6, <4>1, <4>6, StageFreeIs
    <3> QED
      BY <3>1, <3>2
  <2>7. ASSUME NEW t \in Things, Begun(t) PROVE Undone(t)' <=> Undone(t) \/ t \in S
    <3>1. Undone(t) => Rank(t) = 6 /\ t[2] = s
      BY <2>4 DEF Rank, OfCheck, OfDict
    <3> QED
      BY <1>8, <2>5, <2>6, <2>7, <3>1
  <2> QED
    BY <1>1, <1>3, <1>6, <1>7, <2>5, <2>7, UndoKeeps
<1> QED
  BY <1>2, <1>9, <1>10

LEMMA UndoStagesKeeps == BuildInv /\ UndoStages => BuildInv'
<1> SUFFICES ASSUME BuildInv, UndoStages PROVE BuildInv'
  OBVIOUS
<1> DEFINE s == Item[2]
<1>1. /\ builder = "stages" /\ builder' = "context" /\ builder \in Undoing /\ builder' \in Undoing
      /\ UNCHANGED <<conf, step, ctxDicts, ctxStages>>
  BY DEF UndoStages, Undoing
<1>2. /\ ConfOK /\ PlaceInv /\ step \in 1..Len(Plan) /\ Function \in {"check", "stage"}
      /\ \A S : Ever(S) = {t \in S \cap Things : Begun(t)}
      /\ \A t \in Things : Begun(t) => Reached(t) /\ Prec(t, Item)
  BY <1>1, UndoFacts DEF PlaceInv
<1>3. PlaceInv'
  BY <1>1, <1>2, UndoPlace
<1>4. Rank(Item) = 6 /\ s \in DOMAIN conf.stages /\ DOMAIN conf.stages \subseteq Nat \ {0} /\ Stages \in Things
  BY <1>2, ItemKinds, ConfFacts, PlanList
<1>5. PICK S : S = {Stages} \cup UNION {StageFree(k, Checks(k)) : k \in StagesBefore}
  OBVIOUS
<1>6. Free(S)
  BY <1>5 DEF UndoStages
<1>7. \A k : k \in StagesBefore <=> k \in 1..(s - 1)
  BY DEF StagesBefore
<1>8. ASSUME NEW t
      PROVE  t \in S <=> t = Stages \/ (t \in Things /\ Begun(t) /\ Rank(t) = 6 /\ t[2] \in 1..(s - 1))
  <2>1. t \in S <=> t = Stages \/ \E k \in 1..(s - 1) : t \in StageFree(k, Checks(k))
    BY <1>5, <1>7
  <2>2. \A k : t \in StageFree(k, Checks(k)) => t \in Things
    BY <1>2, StageFreeIs
  <2>3. ASSUME t \in Things
        PROVE  \A k : t \in StageFree(k, Checks(k)) <=> Begun(t) /\ Rank(t) = 6 /\ t[2] = k
    BY <1>2, <2>3, StageFreeAll
  <2> QED
    BY <2>1, <2>2, <2>3
<1>9. Begun(Stages)
  <2>1. Has(Plan, Stages)
    BY <1>2, PlanFacts
  <2>2. Rank(Stages) = 5 /\ Item # Stages
    BY <1>4, SingleRanks
  <2>3. ~Prec(Item, Stages)
    BY <1>4, <2>2 DEF Prec
  <2>4. Reached(Stages)
    BY <1>2, <2>1, <2>2, <2>3, Times
  <2> QED
    BY <2>4 DEF Begun, Skippable, Stages
<1>10. \A t : Undone(t) <=> Rank(t) = 6 /\ t[2] = s
  BY <1>1 DEF Undone
<1>11. \A t : Undone(t)' <=> Rank(t) >= 5
  BY <1>1, <1>2, PlaceStays DEF Undone
<1>12. S \subseteq Things
  BY <1>4, <1>8
<1>13. \A t \in S : Begun(t) /\ ~Undone(t)
  <2>1. s \notin 1..(s - 1)
    BY <1>4
  <2> QED
    BY <1>8, <1>9, <1>10, <2>1, SingleRanks
<1>14. ASSUME NEW t \in Things, Begun(t) PROVE Undone(t)' <=> Undone(t) \/ t \in S
  <2>1. Rank(t) \in 1..6 /\ (Rank(t) = 5 <=> t = Stages)
    BY <1>2, ThingKinds
  <2>2. Rank(t) = 6 => t[2] = s \/ t[2] \in 1..(s - 1)
    <3> SUFFICES ASSUME Rank(t) = 6 PROVE t[2] = s \/ t[2] \in 1..(s - 1)
      OBVIOUS
    <3>1. t[2] \in DOMAIN conf.stages
      BY <1>2, ThingKinds
    <3>2. t[2] \in Nat \ {0} /\ s \in Nat
      BY <1>4, <3>1
    <3>3. t[2] < s \/ t[2] = s
      BY <1>2, <1>4, <1>14 DEF Prec
    <3> QED
      BY <3>2, <3>3
  <2> QED
    BY <1>8, <1>10, <1>11, <1>14, <2>1, <2>2
<1> QED
  BY <1>1, <1>3, <1>6, <1>12, <1>13, <1>14, UndoKeeps

-----------------------------------------------------------------------------
\* A dict that has been gone through: the pool is freed, and then the dicts stay.
LEMMA DictFreeIs ==
  ASSUME ConfOK, \A S : Ever(S) = {t \in S \cap Things : Begun(t)}, NEW i \in DOMAIN conf.dicts, NEW t,
         \A x \in DictParts(i) : Reached(x)
  PROVE  /\ t \in DictFree(i) => t \in Things /\ Begun(t) /\ Rank(t) = 4 /\ t[2] = i
         /\ t \in DictFree(i) => t[1] = "pool" \/ Unfinished(i)
         /\ t \in Things /\ Begun(t) /\ Rank(t) = 4 /\ t[2] = i /\ (t[1] = "pool" \/ Unfinished(i)) =>
              t \in DictFree(i)
<1> DEFINE d == <<"dict", i>>
           o == <<"outer", i>>
           p == <<"pool", i>>
<1>1. /\ Rank(d) = 4 /\ d[2] = i /\ d[1] # "pool" /\ Rank(o) = 4 /\ o[2] = i /\ o[1] # "pool"
      /\ Rank(p) = 4 /\ p[2] = i /\ p[1] = "pool" /\ d # o /\ d # p /\ o # p
  BY Ranks
<1>2. d \in DictParts(i) /\ (o \in DictParts(i) <=> p \in DictParts(i))
      /\ \A x \in DictParts(i) : x = d \/ x = o \/ x = p
  BY DEF DictParts
<1>3. o \in Things <=> o \in DictParts(i)
  <2>1. o \in Things => o \in DictParts(i)
    BY <1>1, ThingKinds
  <2>2. o \in DictParts(i) => Has(Plan, o) /\ ~IsLookup(o)
    BY PlanFacts DEF IsLookup
  <2> QED
    BY <2>1, <2>2, PlanList
<1>4. p \in Things <=> p \in DictParts(i)
  <2>1. p \in Things => p \in DictParts(i)
    BY <1>1, ThingKinds
  <2>2. p \in DictParts(i) => Has(Plan, p) /\ ~IsLookup(p)
    BY PlanFacts DEF IsLookup
  <2> QED
    BY <2>1, <2>2, PlanList
<1>5. (Begun(o) <=> Reached(o)) /\ (Begun(p) <=> Reached(p))
  BY DEF Begun, Skippable
<1>6. (o \in Things /\ Begun(o)) <=> o \in DictParts(i)
  BY <1>3, <1>5
<1>7. Begun(p) <=> p \in DictParts(i)
  <2>1. Reached(p) => Has(Plan, p)
    BY DEF Reached, Has
  <2>2. ~IsLookup(p)
    BY DEF IsLookup
  <2> QED
    BY <1>4, <1>5, <2>1, <2>2, PlanList
<1>8. Unfinished(i) <=> ~Begun(p)
  BY DEF Unfinished
<1>9. CASE o \in DictParts(i)
  <2>1. Ever({o}) # {}
    BY <1>6, <1>9
  <2>2. DictFree(i) = Ever({p})
    BY <2>1 DEF DictFree
  <2>3. t \in DictFree(i) <=> t = p /\ t \in Things /\ Begun(t)
    BY <2>2
  <2>4. ~Unfinished(i)
    BY <1>2, <1>7, <1>8, <1>9
  <2>5. t \in Things /\ Rank(t) = 4 /\ t[2] = i => t = d \/ t = o \/ t = p
    BY <1>2, ThingKinds
  <2> QED
    BY <1>1, <2>3, <2>4, <2>5
<1>10. CASE o \notin DictParts(i)
  <2>1. Ever({o}) = {}
    BY <1>6, <1>10
  <2>2. DictFree(i) = Ever({d})
    BY <2>1 DEF DictFree
  <2>3. t \in DictFree(i) <=> t = d /\ t \in Things /\ Begun(t)
    BY <2>2
  <2>4. Unfinished(i)
    BY <1>2, <1>7, <1>8, <1>10
  <2>5. t \in Things /\ Rank(t) = 4 /\ t[2] = i => t = d
    BY <1>2, <1>10, ThingKinds
  <2> QED
    BY <1>1, <2>3, <2>4, <2>5
<1> QED
  BY <1>9, <1>10

LEMMA UndoDictsKeeps == BuildInv /\ UndoDicts => BuildInv'
<1> SUFFICES ASSUME BuildInv, UndoDicts PROVE BuildInv'
  OBVIOUS
<1> DEFINE i == Item[2]
           d == <<"dict", i>>
           o == <<"outer", i>>
           p == <<"pool", i>>
<1>1. /\ builder = "dicts" /\ builder' = "context" /\ builder \in Undoing /\ builder' \in Undoing
      /\ UNCHANGED <<conf, step, ctxDicts, ctxStages>>
  BY DEF UndoDicts, Undoing
<1>2. /\ ConfOK /\ PlaceInv /\ step \in 1..Len(Plan) /\ Function = "dicts" /\ Item[1] # "dict"
      /\ \A S : Ever(S) = {t \in S \cap Things : Begun(t)}
      /\ \A t \in Things : Begun(t) => Reached(t) /\ Prec(t, Item)
  BY <1>1, UndoFacts DEF PlaceInv
<1>3. PlaceInv'
  BY <1>1, <1>2, UndoPlace
<1>4. /\ Rank(Item) = 4 /\ i \in DOMAIN conf.dicts /\ Item \in DictParts(i)
      /\ DOMAIN conf.dicts \subseteq Nat \ {0} /\ \A j \in 1..(i - 1) : j \in DOMAIN conf.dicts
  <2>1. Rank(Item) = 4 /\ i \in DOMAIN conf.dicts /\ Item \in DictParts(i)
    BY <1>2, ItemKinds
  <2>2. Len(conf.dicts) \in Nat /\ DOMAIN conf.dicts = 1..Len(conf.dicts)
    BY <1>2, ConfFacts
  <2> QED
    BY <2>1, <2>2
<1>5. Item = o \/ Item = p
  BY <1>2, <1>4 DEF DictParts
<1>6. ASSUME NEW j \in 1..(i - 1), NEW x \in DictParts(j) PROVE Reached(x)
  <2>1. Rank(x) = 4 /\ x[2] = j /\ j \in DOMAIN conf.dicts
    BY <1>4, RanksOfParts
  <2>2. j < i /\ i \in Nat /\ j \in Nat
    BY <1>4
  <2>3. ~Prec(Item, x) /\ x # Item
    BY <1>4, <2>1, <2>2 DEF Prec
  <2>4. Has(Plan, x)
    BY <1>2, <2>1, PlanFacts
  <2> QED
    BY <1>2, <2>3, <2>4, Times
<1>7. PICK S : S = Ever({o, d, Dicts}) \cup UNION {DictFree(j) : j \in 1..(i - 1)}
  OBVIOUS
<1>8. Free(S)
  BY <1>7 DEF UndoDicts
<1>9. \A t : ~Undone(t)
  BY <1>1 DEF Undone
<1>10. \A j : Unfinished(j)' <=> Unfinished(j)
  BY <1>1, PlaceStays DEF Unfinished
<1>11. \A t : Undone(t)' <=> t = Dicts \/ (Rank(t) = 4 /\ (t[1] = "pool" \/ Unfinished(t[2])))
  BY <1>1, <1>2, <1>10, PlaceStays DEF Undone
<1>12. \A t : t \in S <=> \/ t \in Things /\ Begun(t) /\ (t = o \/ t = d \/ t = Dicts)
                          \/ \E j \in 1..(i - 1) : t \in DictFree(j)
  BY <1>2, <1>7
<1>13. ASSUME NEW t \in S PROVE t \in Things /\ Begun(t) /\ ~Undone(t)
  <2>1. ASSUME NEW j \in 1..(i - 1), t \in DictFree(j) PROVE t \in Things /\ Begun(t)
    BY <1>2, <1>4, <1>6, <2>1, DictFreeIs
  <2> QED
    BY <1>9, <1>12, <2>1
<1>14. ~Begun(p)
  <2>1. Role(p) = 3 /\ Rank(p) = 4 /\ p[2] = i /\ i \in Nat
    BY <1>4, Ranks
  <2>2. Role(Item) \in {2, 3}
    BY <1>5, Ranks
  <2>3. ~Prec(p, Item)
    BY <1>4, <2>1, <2>2 DEF Prec
  <2> QED
    BY <1>2, <2>3, Times DEF Begun
<1>15. ASSUME NEW t \in Things, Begun(t) PROVE Undone(t)' <=> Undone(t) \/ t \in S
  <2>1. CASE t = Dicts
    BY <1>11, <1>12, <1>15, <2>1
  <2>2. CASE t # Dicts /\ Rank(t) # 4
    <3>1. t # o /\ t # d
      BY <2>2, Ranks
    <3>2. \A j \in 1..(i - 1) : t \notin DictFree(j)
      BY <1>2, <1>4, <1>6, <2>2, DictFreeIs
    <3> QED
      BY <1>9, <1>11, <1>12, <2>2, <3>1, <3>2
  <2>3. CASE Rank(t) = 4 /\ t[2] = i
    <3>1. Unfinished(i)
      BY <1>14 DEF Unfinished
    <3>2. t \in DictParts(i)
      BY <1>2, <2>3, ThingKinds
    <3>3. t = d \/ t = o
      BY <1>14, <1>15, <3>2 DEF DictParts
    <3> QED
      BY <1>11, <1>12, <1>15, <2>3, <3>1, <3>3
  <2>4. CASE Rank(t) = 4 /\ t[2] # i
    <3>1. t[2] \in DOMAIN conf.dicts
      BY <1>2, <2>4, ThingKinds
    <3>2. t[2] < i
      BY <1>2, <1>4, <1>15, <2>4 DEF Prec
    <3>3. t[2] \in 1..(i - 1)
      BY <1>4, <3>1, <3>2
    <3>4. t # o /\ t # d /\ t # Dicts
      BY <2>4, SingleRanks
    <3>5. \A j \in 1..(i - 1) : t \in DictFree(j) => t[2] = j
      BY <1>2, <1>4, <1>6, DictFreeIs
    <3>6. t \in S <=> t \in DictFree(t[2])
      BY <1>12, <3>3, <3>4, <3>5
    <3>7. t \in DictFree(t[2]) <=> t[1] = "pool" \/ Unfinished(t[2])
      BY <1>2, <1>6, <1>15, <2>4, <3>1, <3>3, DictFreeIs
    <3> QED
      BY <1>9, <1>11, <2>4, <3>4, <3>6, <3>7
  <2> QED
    BY <2>1, <2>2, <2>3, <2>4
<1>16. S \subseteq Things
  BY <1>13
<1> QED
  BY <1>1, <1>3, <1>8, <1>13, <1>15, <1>16, UndoKeeps

-----------------------------------------------------------------------------
(* At the end: what is still there is the context's, or is complete, or    *)
(* has been undone.                                                        *)
LEMMA EndFacts ==
  ASSUME BuildInv, builder \in {"context", "ready"}
  PROVE  /\ ConfOK /\ LifeInv /\ FieldInv /\ ~twice /\ life \in [Things -> {"none", "live", "gone"}]
         /\ \A S : Ever(S) = {t \in S \cap Things : Begun(t)}
         /\ builder = "ready" => \A t : (Has(Plan, t) => Reached(t)) /\ ~Undone(t)
         /\ builder = "context" =>
              /\ step \in 1..Len(Plan)
              /\ \A t \in Things : Begun(t) => Prec(t, Item)
              /\ Reached(Stages) => Rank(Item) = 6
<1>1. ConfOK /\ PlaceInv /\ LifeInv /\ FieldInv /\ ~twice /\ life \in [Things -> {"none", "live", "gone"}]
  BY DEF BuildInv, Undoing
<1>2. \A S : Ever(S) = {t \in S \cap Things : Begun(t)}
  BY <1>1 DEF Ever, LifeInv
<1>3. ASSUME builder = "ready", NEW t PROVE (Has(Plan, t) => Reached(t)) /\ ~Undone(t)
  <2>1. step = Len(Plan) + 1 /\ Len(Plan) \in Nat
    BY <1>1, <1>3, PlanList DEF PlaceInv
  <2>2. \A k \in 1..Len(Plan) : k < step
    BY <2>1
  <2> QED
    BY <1>3, <2>2 DEF Has, Reached, Undone
<1>4. ASSUME builder = "context"
      PROVE  /\ step \in 1..Len(Plan)
             /\ \A t \in Things : Begun(t) => Prec(t, Item)
             /\ Reached(Stages) => Rank(Item) = 6
  <2>1. step \in 1..Len(Plan)
    BY <1>1, <1>4, PlanList DEF PlaceInv, Undoing
  <2>2. \A t \in Things : Begun(t) => Prec(t, Item)
    BY <1>1, <2>1, Times DEF Begun
  <2>3. Reached(Stages) => Prec(Stages, Item)
    BY <1>1, <2>1, Times
  <2>4. Prec(Stages, Item) => Rank(Item) = 6
    BY <1>1, <2>1, SingleRanks, ItemKinds DEF Prec
  <2> QED
    BY <2>1, <2>2, <2>3, <2>4
<1> QED
  BY <1>1, <1>2, <1>3, <1>4

LEMMA DictsThere ==
  ASSUME BuildInv, builder \in {"context", "ready"}, ctxDicts
  PROVE  /\ \A t : Has(Plan, t) /\ Rank(t) <= 4 => Reached(t)
         /\ \A t \in Things : Rank(t) <= 4 => ~Undone(t)
<1>1. CASE builder = "ready"
  BY <1>1, EndFacts
<1>2. CASE builder = "context"
  <2>1. ConfOK /\ FieldInv /\ step \in 1..Len(Plan) /\ (Reached(Stages) => Rank(Item) = 6) /\ Len(Plan) \in Nat
    BY <1>2, EndFacts, PlanList
  <2>2. PICK k \in 1..Len(Plan) : k <= step /\ Plan[k] = Stages
    BY <2>1 DEF FieldInv
  <2>3. Item = Stages \/ Reached(Stages)
    BY <2>1, <2>2 DEF Item, Reached
  <2>4. Rank(Item) = 5 \/ Rank(Item) = 6
    BY <2>1, <2>3, SingleRanks
  <2>5. ASSUME NEW t, Has(Plan, t), Rank(t) <= 4 PROVE Reached(t)
    <3>1. Rank(t) \in 1..6
      BY DEF Rank
    <3>2. ~Prec(Item, t) /\ t # Item
      BY <2>4, <2>5, <3>1 DEF Prec
    <3> QED
      BY <2>1, <2>5, <3>2, Times
  <2>6. Function # "dicts"
    BY <2>1, <2>4, ItemKinds
  <2>7. ASSUME NEW t, Rank(t) <= 4 PROVE ~Undone(t)
    <3>1. Rank(t) \in 1..6
      BY DEF Rank
    <3> QED
      BY <1>2, <2>6, <2>7, <3>1 DEF Undone
  <2> QED
    BY <2>5, <2>7
<1> QED
  BY <1>1, <1>2

\* Without a dicts field no dict is left; without a stages field no stage is.
LEMMA RestUndone ==
  ASSUME BuildInv, builder \in {"context", "ready"}, NEW t \in Things, Begun(t), ~Undone(t)
  PROVE  /\ Rank(t) = 3 => ctxDicts
         /\ Rank(t) = 4 /\ ~ctxDicts => t[1] # "pool" /\ ~Unfinished(t[2])
         /\ Rank(t) >= 5 => builder = "ready"
<1>1. ConfOK /\ FieldInv /\ Len(Plan) \in Nat /\ Has(Plan, Stages)
  BY EndFacts, PlanList, PlanFacts
<1>2. Rank(t) \in 1..6
  BY DEF Rank
<1>3. CASE builder = "ready"
  <2>1. Reached(Stages)
    BY <1>1, <1>3, EndFacts
  <2>2. step \in Nat
    BY DEF BuildInv, PlaceInv
  <2>3. ctxDicts
    BY <1>1, <2>1, <2>2 DEF FieldInv, Reached
  <2> QED
    BY <1>3, <2>3
<1>4. CASE builder = "context"
  <2>1. step \in 1..Len(Plan) /\ Prec(t, Item)
    BY <1>4, EndFacts
  <2>2. /\ Function \in {"check", "stage", "dicts", "context"} /\ Rank(Item) \in 1..6
        /\ Function \in {"check", "stage"} <=> Rank(Item) = 6
        /\ Function = "dicts" <=> Rank(Item) = 4
        /\ Rank(Item) = 5 => Item = Stages
    BY <1>1, <2>1, ItemKinds
  <2>3. Rank(t) >= 5 => FALSE
    <3> SUFFICES ASSUME Rank(t) >= 5 PROVE FALSE
      OBVIOUS
    <3>1. Rank(Item) = 6
      BY <1>2, <2>1, <2>2 DEF Prec
    <3> QED
      BY <1>4, <2>2, <3>1 DEF Undone
  <2>4. Rank(Item) >= 5 => ctxDicts
    <3>1. Item = Stages => ctxDicts
      BY <1>1, <2>1 DEF FieldInv, Item
    <3>2. ASSUME Rank(Item) = 6 PROVE ctxDicts
      <4>1. ~Prec(Item, Stages) /\ Stages # Item
        BY <3>2, SingleRanks DEF Prec
      <4>2. Reached(Stages)
        BY <1>1, <2>1, <4>1, Times
      <4> QED
        BY <1>1, <2>1, <4>2 DEF Reached, FieldInv
    <3>3. Rank(Item) >= 5 => Rank(Item) = 5 \/ Rank(Item) = 6
      BY <2>2
    <3> QED
      BY <2>2, <3>1, <3>2, <3>3
  <2>5. ASSUME Rank(t) = 3 \/ Rank(t) = 4, ~ctxDicts PROVE Function = "dicts"
    BY <2>1, <2>2, <2>4, <2>5 DEF Prec
  <2>6. Rank(t) = 3 => t = Dicts
    BY <1>1, ThingKinds
  <2>7. Rank(t) = 3 => ctxDicts
    BY <1>4, <2>5, <2>6 DEF Undone
  <2>8. Rank(t) = 4 /\ ~ctxDicts => t[1] # "pool" /\ ~Unfinished(t[2])
    BY <1>4, <2>5 DEF Undone
  <2> QED
    BY <2>3, <2>7, <2>8
<1> QED
  BY <1>3, <1>4

LEMMA DestroyKeeps == BuildInv /\ DestroyContext => BuildInv'
<1> SUFFICES ASSUME BuildInv, DestroyContext PROVE BuildInv'
  OBVIOUS
<1> DEFINE strs == {<<"str", Strings[k]>> : k \in DOMAIN Strings} \ Kept
           A == IF ctxStages THEN {Stages} \cup UNION {StageFree(s, Checks(s)) : s \in DOMAIN conf.stages} ELSE {}
           B == IF ctxDicts THEN {Dicts} \cup UNION {DictFree(i) : i \in DOMAIN conf.dicts} ELSE {}
<1>1. builder \in {"context", "ready"} /\ builder' = "gone" /\ UNCHANGED <<conf, step>>
  BY DEF DestroyContext
<1>2. /\ ConfOK /\ LifeInv /\ FieldInv /\ ~twice /\ life \in [Things -> {"none", "live", "gone"}]
      /\ \A S : Ever(S) = {t \in S \cap Things : Begun(t)}
      /\ Has(Plan, Dicts) /\ Has(Plan, Stages) /\ Dicts \in Things /\ Stages \in Things
  BY <1>1, EndFacts, PlanFacts, PlanList
<1>3. PICK S : S = Ever(strs) \cup A \cup B
  OBVIOUS
<1>4. Free(S)
  BY <1>3 DEF DestroyContext
<1>5. ASSUME NEW t
      PROVE  t \in S <=> \/ t \in Things /\ Begun(t) /\ t \in StrParts \ Kept
                         \/ /\ ctxStages
                            /\ t = Stages \/ \E s \in DOMAIN conf.stages : t \in StageFree(s, Checks(s))
                         \/ /\ ctxDicts
                            /\ t = Dicts \/ \E i \in DOMAIN conf.dicts : t \in DictFree(i)
  <2>1. t \in Ever(strs) <=> t \in Things /\ Begun(t) /\ t \in StrParts \ Kept
    BY <1>2 DEF StrParts
  <2>2. t \in A <=> /\ ctxStages
                    /\ t = Stages \/ \E s \in DOMAIN conf.stages : t \in StageFree(s, Checks(s))
    OBVIOUS
  <2>3. t \in B <=> /\ ctxDicts
                    /\ t = Dicts \/ \E i \in DOMAIN conf.dicts : t \in DictFree(i)
    OBVIOUS
  <2> QED
    BY <1>3, <2>1, <2>2, <2>3
<1>6. ASSUME ctxDicts, NEW i \in DOMAIN conf.dicts, NEW x \in DictParts(i) PROVE Reached(x)
  <2>1. Has(Plan, x) /\ Rank(x) = 4
    BY <1>2, <1>6, PlanFacts, RanksOfParts
  <2> QED
    BY <1>1, <1>6, <2>1, DictsThere
<1>7. ASSUME NEW t \in S PROVE t \in Things /\ Begun(t) /\ ~Undone(t)
  <2>1. CASE t \in Things /\ Begun(t) /\ t \in StrParts \ Kept
    <3>1. Rank(t) = 2
      BY <2>1, RanksOfParts
    <3>2. t # Dicts
      BY <3>1, SingleRanks
    <3>3. t[1] \notin OfCheck
      BY <3>1 DEF Rank, OfCheck, OfDict
    <3> QED
      BY <2>1, <3>1, <3>2, <3>3 DEF Undone
  <2>2. CASE ctxStages /\ (t = Stages \/ \E s \in DOMAIN conf.stages : t \in StageFree(s, Checks(s)))
    <3>1. builder = "ready"
      BY <1>2, <2>2 DEF FieldInv
    <3>2. ~Undone(t) /\ Reached(Stages)
      BY <1>2, <3>1, EndFacts
    <3>3. Begun(Stages)
      BY <3>2 DEF Begun, Skippable, Stages
    <3> QED
      BY <1>2, <2>2, <3>2, <3>3, StageFreeIs
  <2>3. CASE ctxDicts /\ t = Dicts
    <3>1. Reached(Dicts) /\ ~Undone(Dicts)
      BY <1>1, <1>2, <2>3, SingleRanks, DictsThere
    <3>2. Begun(Dicts)
      BY <3>1 DEF Begun, Skippable, Dicts
    <3> QED
      BY <1>2, <2>3, <3>1, <3>2
  <2>4. ASSUME ctxDicts, NEW i \in DOMAIN conf.dicts, t \in DictFree(i)
        PROVE  t \in Things /\ Begun(t) /\ ~Undone(t)
    <3>1. t \in Things /\ Begun(t) /\ Rank(t) = 4
      BY <1>2, <1>6, <2>4, DictFreeIs
    <3> QED
      BY <1>1, <2>4, <3>1, DictsThere
  <2> QED
    BY <1>5, <2>1, <2>2, <2>3, <2>4
<1>8. \A t \in S : life[t] = "live"
  BY <1>2, <1>7 DEF LifeInv
<1>9. ~twice'
  BY <1>2, <1>4, <1>8 DEF Free
<1>10. /\ Things' = Things /\ ConfOK' /\ Plan' = Plan
  BY <1>1, <1>2, PlaceStays
<1>11. life' = [t \in Things |-> IF t \in S THEN "gone" ELSE life[t]]
  BY <1>4 DEF Free
<1>12. life' \in [Things -> {"none", "live", "gone"}]
  BY <1>2, <1>11
<1>13. PlaceInv'
  BY <1>1, <1>10 DEF PlaceInv, BuildInv, Undoing
<1>14. ASSUME NEW t \in Things, life'[t] = "live" PROVE t \in Remains'
  <2>1. t \notin S /\ life[t] = "live"
    BY <1>11, <1>14
  <2>2. Begun(t) /\ ~Undone(t)
    BY <1>2, <2>1 DEF LifeInv
  <2>3. /\ Rank(t) = 3 => ctxDicts
        /\ Rank(t) = 4 /\ ~ctxDicts => t[1] # "pool" /\ ~Unfinished(t[2])
        /\ Rank(t) >= 5 => builder = "ready"
    BY <1>1, <2>2, RestUndone
  <2>4. Rank(t) \in 1..6
    BY DEF Rank
  <2>5. CASE Rank(t) = 1
    BY <1>2, <2>5, ThingKinds DEF Remains, Kept
  <2>6. CASE Rank(t) = 2
    <3>1. t \in StrParts
      BY <1>2, <2>6, ThingKinds
    <3>2. t \in Kept
      BY <1>5, <2>1, <2>2, <3>1
    <3> QED
      BY <3>2 DEF Remains
  <2>7. CASE Rank(t) = 3
    BY <1>2, <1>5, <2>1, <2>3, <2>7, ThingKinds
  <2>8. CASE Rank(t) = 4
    <3>1. t[2] \in DOMAIN conf.dicts /\ t \in DictParts(t[2])
      BY <1>2, <2>8, ThingKinds
    <3>2. t[1] # "pool" /\ ~Unfinished(t[2])
      <4>1. CASE ~ctxDicts
        BY <2>3, <2>8, <4>1
      <4>2. CASE ctxDicts
        <5>1. t \notin DictFree(t[2])
          BY <1>5, <2>1, <3>1, <4>2
        <5> QED
          BY <1>2, <1>6, <2>2, <2>8, <3>1, <4>2, <5>1, DictFreeIs
      <4> QED
        BY <4>1, <4>2
    <3> DEFINE p == <<"pool", t[2]>>
    <3>3. Begun(p)
      BY <3>2 DEF Unfinished
    <3>4. p \in Things
      <4>1. Has(Plan, p)
        BY <3>3 DEF Begun, Reached, Has
      <4>2. ~IsLookup(p)
        BY DEF IsLookup
      <4> QED
        BY <1>2, <4>1, <4>2, PlanList
    <3>5. life[p] # "none"
      BY <1>2, <3>3, <3>4 DEF LifeInv
    <3>6. life'[p] # "none"
      BY <1>11, <3>4, <3>5
    <3>7. Finished(t[2])'
      BY <1>10, <3>4, <3>6 DEF Finished
    <3>8. t = <<"dict", t[2]>> \/ t = <<"outer", t[2]>>
      BY <3>1, <3>2 DEF DictParts
    <3>9. PICK i : i = t[2]
      OBVIOUS
    <3>10. i \in (DOMAIN conf.dicts)' /\ Finished(i)' /\ t \in {<<"dict", i>>, <<"outer", i>>}
      BY <1>1, <3>1, <3>7, <3>8, <3>9
    <3> QED
      BY <3>10 DEF Remains
  <2>9. CASE Rank(t) = 5
    <3>1. t = Stages /\ ctxStages
      BY <1>2, <2>3, <2>9, ThingKinds DEF FieldInv
    <3> QED
      BY <1>5, <2>1, <3>1
  <2>10. CASE Rank(t) = 6
    <3>1. ctxStages
      BY <1>2, <2>3, <2>10 DEF FieldInv
    <3>2. t[2] \in DOMAIN conf.stages
      BY <1>2, <2>10, ThingKinds
    <3>3. t \in StageFree(t[2], Checks(t[2]))
      BY <1>2, <2>2, <2>10, StageFreeAll
    <3> QED
      BY <1>5, <2>1, <3>1, <3>2, <3>3
  <2> QED
    BY <2>4, <2>5, <2>6, <2>7, <2>8, <2>9, <2>10
<1>15. GoneInv'
  BY <1>10, <1>14 DEF GoneInv
<1> QED
  BY <1>1, <1>9, <1>10, <1>12, <1>13, <1>15 DEF BuildInv, Undoing

LEMMA BuildStutters == BuildInv /\ UNCHANGED buildVars => BuildInv'
<1> SUFFICES ASSUME BuildInv, UNCHANGED buildVars PROVE BuildInv'
  OBVIOUS
<1>1. UNCHANGED <<conf, builder, step, life, ctxDicts, ctxStages, twice>>
  BY DEF buildVars
<1>2. /\ Plan' = Plan /\ Things' = Things /\ (ConfOK' <=> ConfOK) /\ Item' = Item /\ Function' = Function
      /\ \A t : Begun(t)' <=> Begun(t)
  BY <1>1, PlaceStays
<1>3. PlaceInv'
  BY <1>1, <1>2 DEF PlaceInv, BuildInv
<1>4. \A t : Undone(t)' <=> Undone(t)
  BY <1>1, <1>2 DEF Undone, Unfinished
<1>5. LifeInv => LifeInv'
  BY <1>1, <1>2, <1>4 DEF LifeInv
<1>6. FieldInv /\ FoundInv => FieldInv' /\ FoundInv'
  BY <1>1, FieldsStay
<1>7. GoneInv => GoneInv'
  <2>1. \A i : Finished(i)' <=> Finished(i)
    BY <1>1, <1>2 DEF Finished
  <2>2. Remains' = Remains
    BY <1>1, <2>1 DEF Remains
  <2> QED
    BY <1>1, <1>2, <2>2 DEF GoneInv
<1> QED
  BY <1>1, <1>2, <1>3, <1>5, <1>6, <1>7 DEF BuildInv

LEMMA BuildSteps == BuildInv /\ [BuildNext]_buildVars => BuildInv'
BY MakesKeep, FailsKeep, UndoDictsKeeps, UndoCheckKeeps, UndoStageKeeps, UndoStagesKeeps,
   DestroyKeeps, BuildStutters DEF BuildNext

LEMMA BuiltFromInv == BuildInv => BuiltOnce
<1> SUFFICES ASSUME BuildInv PROVE BuiltOnce
  OBVIOUS
<1>1. ~twice /\ (builder = "gone" => GoneInv) /\ ConfOK /\ PlaceInv
      /\ life \in [Things -> {"none", "live", "gone"}]
  BY DEF BuildInv
<1>2. ASSUME builder = "ready"
      PROVE  /\ \A t \in Things : life[t] = "live" \/ (t[1] = "dict" /\ conf.dicts[t[2]].type = "none")
             /\ \A name \in Refs : \E i \in Same(name) : life[<<"dict", i>>] = "live"
  <2>1. /\ LifeInv /\ FoundInv
        /\ \A t : (Has(Plan, t) => Reached(t)) /\ ~Undone(t)
    BY <1>2, EndFacts DEF BuildInv
  <2>2. \A t \in Things : Has(Plan, t)
    BY <1>1, PlanList
  <2>3. \A t \in Things : life[t] = "live" \/ Skippable(t)
    BY <1>1, <2>1, <2>2 DEF LifeInv, Begun
  <2>4. ASSUME NEW name \in Refs PROVE \E i \in Same(name) : life[<<"dict", i>>] = "live"
    <3>1. PICK s \in DOMAIN conf.stages : name \in {conf.stages[s].checks[c].dict : c \in Checks(s)}
      BY DEF Refs
    <3>2. PICK c \in Checks(s) : name = conf.stages[s].checks[c].dict
      BY <3>1
    <3>3. Has(Plan, <<"pos", s, c, name>>)
      BY <1>1, <3>2, PlanFacts
    <3>4. PICK k \in 1..Len(Plan) : k < step /\ Plan[k] = <<"pos", s, c, name>>
      BY <2>1, <3>3 DEF Reached
    <3>5. Plan[k][1] = "pos" /\ Plan[k][4] = name
      BY <3>4
    <3>6. Found(name)
      BY <2>1, <3>4, <3>5 DEF FoundInv
    <3>7. PICK i \in Same(name) : \A j \in 1..i : j \notin Empty
      BY <3>6 DEF Found
    <3>8. i \in DOMAIN conf.dicts /\ i \in 1..i
      BY <1>1, ConfFacts DEF Same
    <3>9. conf.dicts[i].type # "none"
      BY <3>7, <3>8 DEF Empty
    <3> DEFINE d == <<"dict", i>>
    <3>10. d \in DictParts(i) /\ ~IsLookup(d)
      BY DEF DictParts, IsLookup
    <3>11. d \in Things
      BY <1>1, <3>8, <3>10, PlanFacts, PlanList
    <3>12. ~Skippable(d)
      BY <3>9 DEF Skippable
    <3> QED
      BY <2>3, <3>11, <3>12
  <2> QED
    BY <2>3, <2>4 DEF Skippable
<1> QED
  BY <1>1, <1>2 DEF BuiltOnce, GoneInv

LEMMA BuildInits == BuildInit => BuildInv
BY BuildStarts, ContextAssumption DEF BuildInit

(* Making a context frees nothing twice, wherever it fails; a context that *)
(* is gone has left nothing but what Remains names; one that is ready has  *)
(* all its configuration says, and its checks' dicts were made.            *)
THEOREM BuiltSafety == BuildSpec => []BuiltOnce
<1> QED
  BY BuildInits, BuildSteps, BuiltFromInv, PTL DEF BuildSpec
=============================================================================
