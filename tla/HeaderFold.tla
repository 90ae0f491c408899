----------------------------- MODULE HeaderFold -----------------------------
(***************************************************************************)
(* How WriteHeader puts a header on the wire, and what a reader makes of   *)
(* it.  The wire is a sequence of tokens: a field name with its colon is   *)
(* one token, white space and the end of a line are tokens, everything     *)
(* else is ink.  A token has width one, but for the name of a field at the *)
(* beginning of its line; a name that a body has come to contain is text   *)
(* like any other.  A header has, for each key, the sequence of its        *)
(* bodies; an empty sequence is a field that is absent.                    *)
(*                                                                         *)
(* The code's limits are Soft = 78 and Hard = 998.                         *)
(***************************************************************************)
EXTENDS Integers, SequencesExt

CONSTANTS
    Soft, Hard,     \* preferred and largest length of a line
    Keys,           \* the keys of a header, sorted
    Width,          \* the length of the name of each key
    Joined          \* keys whose bodies are joined to one: Reply-To, To, ...

ASSUME LimitAssumption == Soft \in Nat /\ Hard \in Nat /\ 3 < Hard /\ Soft <= Hard
ASSUME WidthAssumption ==
    Keys \in Seq(Range(Keys)) /\ Width \in [Range(Keys) -> Nat \ {0}] /\ Joined \subseteq Range(Keys)

WS   == <<"space">>
CRLF == <<"newline">>
Name(k) == <<"name", k>>

NoHeader == [k \in Range(Keys) |-> <<>>]

IsInk(token) == token \notin {WS, CRLF}

(* What a sequence has at some of its positions, in order.                 *)
At(s, positions) == FlattenSeq([i \in DOMAIN s |-> IF i \in positions THEN <<s[i]>> ELSE <<>>])

Ink(s) == At(s, {i \in DOMAIN s : IsInk(s[i])})

(* strings.TrimSpace                                                       *)
TrimSpace(s) ==
    LET ink == {i \in DOMAIN s : IsInk(s[i])}
    IN  IF ink = {} THEN <<>> ELSE SubSeq(s, Min(ink), Max(ink))

-----------------------------------------------------------------------------
(* Writing *)

(* Mutant: a long word is cut where the line should end, not where it must. *)
CropAtSoft(body, written) ==
    IF Len(body) <= Soft - written THEN Len(body) ELSE Max({1, Soft - written})

(* How much of a trimmed body goes on a line that has so many characters   *)
(* already: all, or up to the last white space that keeps the line short,  *)
(* or to the first after it, or as much as a line may have.                *)
Crop(body, written) ==
    LET blank(i) == i < Len(body) /\ body[i + 1] = WS
        short == {i \in 1..(Soft - written) : blank(i)}
        long  == {i \in Max({0, Soft + 1 - written})..(Hard - written) : blank(i)}
    IN  IF Len(body) <= Soft - written THEN Len(body)
        ELSE IF short # {} THEN Max(short)
        ELSE IF long # {} THEN Min(long)
        ELSE Min({Hard - written, Len(body)})

(* A round of the loop of headerWritelnFold, which writes a line unless    *)
(* nothing is left; the lines after the first begin with a space.          *)
Round(written, s) ==
    LET first == s.out = <<>>
        crop  == Crop(s.rest, IF first THEN written ELSE 1)
        line  == (IF first THEN <<>> ELSE <<WS>>) \o TrimSpace(SubSeq(s.rest, 1, crop)) \o <<CRLF>>
    IN  IF s.rest = <<>> THEN s
        ELSE [out  |-> s.out \o line,
              rest |-> TrimSpace(SubSeq(s.rest, crop + 1, Len(s.rest)))]

(* No body takes more rounds than it has characters.                       *)
Lines(body, written) ==
    LET round[n \in 0..Len(body)] ==
           IF n = 0 THEN [out |-> <<>>, rest |-> TrimSpace(body)] ELSE Round(written, round[n - 1])
    IN  round[Len(body)].out

(* An empty body has no line, and thus no end of a line.                   *)
headerWritelnFold(k, body) == <<Name(k)>> \o Lines(body, Width[k] + 2)

(* "header field name too long"                                            *)
Writable(header) == \A k \in Range(Keys) : header[k] # <<>> => Width[k] <= Hard - 3

(* Mutant: as an old mailer folds a list, with a line for each address.    *)
AddressListFolded(bodies) == TrimSpace(FlattenSeq([i \in DOMAIN bodies |-> <<CRLF, WS>> \o bodies[i]]))

(* AddressList: with a space between (the comma belongs to the address).   *)
AddressList(bodies) == TrimSpace(FlattenSeq([i \in DOMAIN bodies |-> <<WS>> \o bodies[i]]))

Bodies(header, k) ==
    IF k \in Joined /\ Len(header[k]) > 1 THEN <<AddressList(header[k])>> ELSE header[k]

WriteHeader(header) ==
    FlattenSeq([n \in DOMAIN Keys |->
               LET k == Keys[n]
                   bodies == Bodies(header, k)
               IN  FlattenSeq([i \in DOMAIN bodies |-> headerWritelnFold(k, bodies[i])])])
    \o <<CRLF>>

-----------------------------------------------------------------------------
(* Reading (net/textproto) *)

BeginsLine(wire, i) == i = 1 \/ wire[i - 1] = CRLF

Terminators(wire) == {i \in DOMAIN wire : wire[i] = CRLF /\ BeginsLine(wire, i)}

Terminated(wire) == Terminators(wire) # {}

HeaderEnd(wire) == IF Terminated(wire) THEN Min(Terminators(wire)) ELSE Len(wire) + 1

(* Lines that begin with white space continue the field before.            *)
Starts(wire, end) == {i \in 1..(end - 1) : BeginsLine(wire, i) /\ wire[i] # WS}

(* The body of the field that begins at i.                                 *)
Body(wire, end, starts, i) ==
    LET stop == Min({j \in starts : i < j} \cup {end})
        s    == SubSeq(wire, i + 1, stop - 1)
    IN  TrimSpace(At(s, {j \in DOMAIN s : s[j] # CRLF}))

ReadHeader(wire) ==
    LET end    == HeaderEnd(wire)
        starts == Starts(wire, end)
    IN  [k \in Range(Keys) |-> At([i \in DOMAIN wire |-> Body(wire, end, starts, i)],
                                  {i \in starts : wire[i] = Name(k)})]

-----------------------------------------------------------------------------
(* What a header must survive *)

HasEmptyField(header) == \E k \in Range(Keys) : \E i \in DOMAIN header[k] : Ink(header[k][i]) = <<>>

(* After how many tokens of ink there is white space.                      *)
Breaks(s) == {Len(Ink(SubSeq(s, 1, i))) : i \in {j \in DOMAIN s : s[j] = WS}}

(* The longest word.                                                       *)
LongestWord(s) ==
    Max({0} \cup {n \in 1..Len(s) : \E i \in 1..(Len(s) - n + 1) :
                                      \A j \in i..(i + n - 1) : IsInk(s[j])})

LineWidth(line) ==
    IF line # <<>> /\ line[1][1] = "name" THEN Width[line[1][2]] + 1 + Len(line) ELSE Len(line)

(* RFC 5322, as headerWritelnFold quotes it: no line is too long.          *)
LinesFit(wire) ==
    \A i \in DOMAIN wire :
       BeginsLine(wire, i)
          => LineWidth(SubSeq(wire, i, Min({j \in i..Len(wire) : wire[j] = CRLF}) - 1)) <= Hard

(* The reader gets every field, each with all of its ink in order, and the *)
(* same words, unless a word does not fit on a line.                       *)
ReadsBack(header, read) ==
    \A k \in Range(Keys) :
       LET written == Bodies(header, k)
       IN  /\ Len(read[k]) = Len(written)
           /\ \A i \in DOMAIN written :
                 LET breaks == Breaks(TrimSpace(written[i]))
                 IN  /\ Ink(read[k][i]) = Ink(written[i])
                     /\ breaks \subseteq Breaks(read[k][i])
                     /\ LongestWord(written[i]) <= Hard - (Width[k] + 2) => breaks = Breaks(read[k][i])
=============================================================================
