---------------------------- MODULE RequestParse ----------------------------
(***************************************************************************)
(* req.c: a worker reads a request from a connection, chunk by chunk, into *)
(* a line buffer of BufLen, takes the complete lines out of it and keeps   *)
(* what they say in the members of its request, which it has for as long   *)
(* as the thread lives.                                                    *)
(*                                                                         *)
(* A cell of the stream is what a line begins with ("sender=", a Key), a   *)
(* line terminator, an "@", or other text; a chunk ends after any cell.    *)
(* An empty sequence is a member that was never set.  Ghosts: `want` and   *)
(* `line` are what a reader without a buffer, who takes the stream cell by *)
(* cell, would have by now; `torn` is a sender whose domain could not be   *)
(* copied.                                                                 *)
(***************************************************************************)
EXTENDS Integers, Sequences, FiniteSets

CONSTANTS
  Keys,     \* the members' names a line may begin with
  Texts,    \* other cells
  BufLen    \* BUFLEN

ASSUME ParseAssumption ==
  /\ BufLen \in Nat \ {0}
  /\ Keys \subseteq {"helo_name", "sender", "recipient", "client_address", "client_name", "rev_client_name"}
  /\ Keys \cap Texts = {} /\ Texts \cap {"@", "end"} = {}

VARIABLES
  req,       \* vt_request_t
  reader,    \* idle, read, scan, done, failed
  buf,       \* the buffer, its first n bytes
  at,        \* i of vt_request_parse
  want, line, torn

parseVars == <<req, reader, buf, at, want, line, torn>>

End == "end"
At == "@"
Cells == Keys \cup Texts \cup {At, End}
Members == {"helo_name", "sender", "sender_domain", "recipient", "recipient_domain",
            "client_address", "client_name", "rev_client_name"}
Domain == [sender |-> "sender_domain", recipient |-> "recipient_domain"]
HasDomain == DOMAIN Domain

(***************************************************************************)
(* vt_request_parse_line                                                   *)
(***************************************************************************)

\* What follows the first "@", if anything does.
After(text) ==
  LET ats == {k \in DOMAIN text : text[k] = At}
      k   == CHOOSE a \in ats : \A b \in ats : a <= b
  IN  IF ats = {} THEN <<>> ELSE SubSeq(text, k + 1, Len(text))

\* A line that sets a member: it says more than the name.
Says(ln) == Len(ln) > 1 /\ ln[1] \in Keys
Named(ln) == ln[1]
SetMember(m, mbr, text) == [m EXCEPT ![mbr] = text]

\* The domain is left as it was when there is nothing behind an "@".
SetDomain_Bug(m, mbr, text) ==
  IF mbr \in HasDomain /\ m[Domain[mbr]] = <<>> THEN [m EXCEPT ![Domain[mbr]] = After(text)] ELSE m
SetDomain(m, mbr, text) ==
  IF mbr \in HasDomain /\ After(text) # <<>> THEN [m EXCEPT ![Domain[mbr]] = After(text)] ELSE m

ParseLine(m, ln) ==
  IF Says(ln) THEN SetDomain(SetMember(m, Named(ln), Tail(ln)), Named(ln), Tail(ln)) ELSE m

(***************************************************************************)
(* vt_request_parse                                                        *)
(***************************************************************************)

ParseInit ==
  /\ req = [m \in Members |-> <<>>] /\ want = req      \* vt_request_create
  /\ reader = "idle" /\ buf = <<>> /\ at = 0 /\ line = <<>> /\ torn = {}

\* A worker takes the next connection; its request is as the last one left it.
Accept ==
  /\ reader \in {"idle", "done", "failed"}
  /\ reader' = "read" /\ buf' = <<>> /\ at' = 0
  /\ want' = req /\ line' = <<>>
  /\ UNCHANGED <<req, torn>>

\* The reader without a buffer.
Fold(m, ln, chunk) ==
  LET f[k \in 0..Len(chunk)] ==
        IF k = 0 THEN <<m, ln>>
        ELSE IF chunk[k] = End THEN <<ParseLine(f[k - 1][1], f[k - 1][2]), <<>>>>
        ELSE <<f[k - 1][1], Append(f[k - 1][2], chunk[k])>>
  IN  f[Len(chunk)]

\* An interrupted read is tried again: it changes nothing.
Read ==
  /\ reader = "read" /\ Len(buf) < BufLen
  /\ \E k \in 1..(BufLen - Len(buf)) : \E chunk \in [1..k -> Cells] :
       /\ buf' = buf \o chunk
       /\ want' = Fold(want, line, chunk)[1]
       /\ line' = Fold(want, line, chunk)[2]
  /\ at' = 0 /\ reader' = "scan"
  /\ UNCHANGED <<req, torn>>

\* The client closes the connection: what is left of a line is dropped.
ReadEof ==
  /\ reader = "read" /\ Len(buf) < BufLen
  /\ reader' = "done"
  /\ UNCHANGED <<req, buf, at, want, line, torn>>

ReadError ==
  /\ reader = "read" /\ Len(buf) < BufLen
  /\ reader' = "failed"
  /\ UNCHANGED <<req, buf, at, want, line, torn>>

\* VT_ERR_NOBUFS
NoSpace ==
  /\ reader = "read" /\ Len(buf) = BufLen
  /\ reader' = "failed"
  /\ UNCHANGED <<req, buf, at, want, line, torn>>

\* Positions in the buffer count from 0: the terminators at or behind i, and the
\* first of them.
Terms(i) == {j \in i..(Len(buf) - 1) : buf[j + 1] = End}
First0(S) == CHOOSE j \in S : \A k \in S : j <= k
\* What follows the terminators that begin at j.
Behind_Bug(j) == Len(buf)
Behind(j) == First0({k \in j..Len(buf) : k = Len(buf) \/ buf[k + 1] # End})

\* One complete line; there may be no memory for the member, or for its domain.
ScanLine ==
  /\ reader = "scan" /\ Terms(at) # {}
  /\ LET j    == First0(Terms(at))
         ln   == SubSeq(buf, at + 1, j)
         mbr  == Named(ln)
         half == SetMember(req, mbr, Tail(ln))
     IN  \/ /\ req' = ParseLine(req, ln)
            /\ at' = Behind(j)
            /\ torn' = IF Says(ln) THEN torn \ {mbr} ELSE torn
            /\ UNCHANGED reader
         \/ /\ Says(ln)
            /\ \/ UNCHANGED <<req, torn>>
               \/ /\ SetDomain(half, mbr, Tail(ln)) # half
                  /\ req' = half /\ torn' = torn \cup {mbr}
            /\ reader' = "failed"
            /\ UNCHANGED at
  /\ UNCHANGED <<buf, want, line>>

\* No line is left.  A part of one moves to the front; a buffer that ended with a line
\* ends the request, unless it is full.  (n - 1 bytes are moved, not n - i: the ones
\* too many land behind the part, where the next read writes.)
Rest(i) == SubSeq(buf, i + 1, Len(buf))
ScanEnd ==
  /\ reader = "scan" /\ Terms(at) = {}
  /\ IF at \in 1..(Len(buf) - 1)
     THEN buf' = Rest(at) /\ reader' = "read"
     ELSE /\ UNCHANGED buf
          /\ reader' = IF at > 0 /\ Len(buf) < BufLen THEN "done" ELSE "read"
  /\ UNCHANGED <<req, at, want, line, torn>>

ParseNext == Accept \/ Read \/ ReadEof \/ ReadError \/ NoSpace \/ ScanLine \/ ScanEnd
ParseSpec == ParseInit /\ [][ParseNext]_parseVars

(***************************************************************************)
(* The names of the members, in the configuration                          *)
(***************************************************************************)

Names == Members
None == "none"
\* strncmp with the length of the name: what begins with a name will do, and the two
\* domains begin with another member's name.
Prefix == [n \in Names |-> IF n = "sender_domain" THEN {"sender", "sender_domain"}
                           ELSE IF n = "recipient_domain" THEN {"recipient", "recipient_domain"} ELSE {n}]
\* vt_request_mbrtoid: the order of the comparisons decides
MbrToId(n) == IF n \notin Names THEN None
              ELSE IF Prefix[n] \cap HasDomain # {} THEN CHOOSE s \in HasDomain : s \in Prefix[n]
              ELSE n
\* vt_request_mbrbyname, vt_request_mbrbynamen, vt_request_mbrbyid
MbrById(r, id) == IF id \in Members THEN r[id] ELSE <<>>
MbrByName(r, n) == MbrById(r, MbrToId(n))
MbrByNamen(r, n) == MbrById(r, n)

(***************************************************************************)
(* Properties                                                              *)
(***************************************************************************)

ParseTypeOK ==
  /\ req \in [Members -> Seq(Cells \ {End})]
  /\ reader \in {"idle", "read", "scan", "done", "failed"}
  /\ Len(buf) \in 0..BufLen /\ at \in 0..BufLen
  /\ torn \subseteq HasDomain

(* vt_request_parse, whatever chunks the client's lines come in: when the  *)
(* buffer has been gone through, or the request is over, the members are   *)
(* what the lines so far say, none missed and none read twice; the buffer  *)
(* holds the line that has begun, and only it, or is full of lines that    *)
(* were read, which fails the request.                                     *)
LinesRight ==
  /\ reader = "done" => req = want
  /\ reader = "read" => /\ req = want
                        /\ buf = line \/ (Len(buf) = BufLen /\ line = <<>>)

(* The request is used for one client after another and never cleared;     *)
(* still the domain is the sender's, or the recipient's, own whenever that *)
(* has one, unless there was no memory for it when it was set.             *)
DomainFits ==
  \A m \in HasDomain \ torn : After(req[m]) # <<>> => req[Domain[m]] = After(req[m])
=============================================================================
