-------------------------------- MODULE P9Codec ------------------------------
(***************************************************************************)
(* The bodies of 9P messages as libs/planten_9p/src/lib.rs writes and reads*)
(* them.  A body is a sequence of cells; a field of fixed width is a cell, *)
(* and so is a character and the 16-bit length in front of a string, a     *)
(* stat or the names of a Twalk.  A length is cut to its width, what it    *)
(* counts is not.  The size of a frame and the length of the data of Rread *)
(* and Twrite have 32 bits: no body here is that long.                     *)
(***************************************************************************)
EXTENDS Integers, Sequences, SequencesExt

CONSTANT LengthModulus    \* 2^16

ASSUME CodecAssumption == LengthModulus \in Nat \ {0}

\* what the body of each message consists of, in order
RequestFormat == [
  Tversion |-> <<"number", "string">>,
  Tauth    |-> <<"number", "string", "string">>,
  Tattach  |-> <<"number", "number", "string", "string">>,
  Twalk    |-> <<"number", "number", "names">>,
  Topen    |-> <<"number", "number">>,
  Tcreate  |-> <<"number", "string", "number", "number">>,
  Tread    |-> <<"number", "number", "number">>,
  Twrite   |-> <<"number", "number", "data">>,
  Tclunk   |-> <<"number">>,
  Tremove  |-> <<"number">>,
  Tstat    |-> <<"number">>,
  Twstat   |-> <<"number", "stat">>,
  Tflush   |-> <<"number">>]

\* what the client decodes of the reply that each request calls for; it takes no look at
\* the bodies of Rattach, Rclunk, Rremove, Rwstat, Rflush and Rerror
ReplyFormat == [
  Tversion |-> <<"number", "string">>,
  Tauth    |-> <<"number">>,
  Tattach  |-> << >>,
  Twalk    |-> <<"qids">>,
  Topen    |-> <<"number", "number">>,
  Tcreate  |-> <<"number", "number">>,
  Tread    |-> <<"data">>,
  Twrite   |-> <<"number">>,
  Tclunk   |-> << >>,
  Tremove  |-> << >>,
  Tstat    |-> <<"stat">>,
  Twstat   |-> << >>,
  Tflush   |-> << >>]

Length16(n) == n % LengthModulus

\* what a field of each kind may hold
Stat == [fixed : Nat, strings : Seq(Seq(Nat))]

IsValue(kind, value) ==
  CASE kind = "number" -> value \in Nat
    [] kind \in {"string", "qids", "data"} -> value \in Seq(Nat)
    [] kind = "names" -> value \in Seq(Seq(Nat))
    [] kind = "stat" -> value \in Stat /\ Len(value.strings) = 4

Fit(format, values) ==
  /\ values = [i \in 1..Len(format) |-> values[i]]
  /\ \A i \in 1..Len(format) : IsValue(format[i], values[i])

(***************************************************************************)
(* Encoding.  A stat has a fixed part and four strings: name, uid, gid and *)
(* muid.                                                                   *)
(***************************************************************************)
EncodeString(s) == <<Length16(Len(s))>> \o s

EncodeStrings(strings) == FlattenSeq([i \in 1..Len(strings) |-> EncodeString(strings[i])])

StatBuf(stat) == <<stat.fixed>> \o EncodeStrings(stat.strings)

EncodeStat(stat) == <<Length16(Len(StatBuf(stat)))>> \o StatBuf(stat)

EncodeField(kind, value) ==
  CASE kind = "number" -> <<value>>
    [] kind = "string" -> EncodeString(value)
    [] kind = "names"  -> <<Length16(Len(value))>> \o EncodeStrings(value)
    [] kind = "qids"   -> <<Length16(Len(value))>> \o value
    [] kind = "stat"   -> EncodeStat(value)
    [] kind = "data"   -> <<Len(value)>> \o value

Encode(format, values) ==
  FlattenSeq([i \in 1..Len(format) |-> EncodeField(format[i], values[i])])

(***************************************************************************)
(* Decoding: a cursor has read some values and has a rest before it, or    *)
(* has come to the end of the body too early.  Cells behind the last field *)
(* of a body, or of a stat, are never looked at.                           *)
(***************************************************************************)
Cursor(body) == [ok |-> TRUE, got |-> << >>, rest |-> body]
Short == [ok |-> FALSE, got |-> << >>, rest |-> << >>]

Take(cursor, value, n) ==
  [ok |-> TRUE, got |-> Append(cursor.got, value), rest |-> SubSeq(cursor.rest, n + 1, Len(cursor.rest))]

DecodeNumber(cursor) == IF cursor.rest = << >> THEN Short ELSE Take(cursor, Head(cursor.rest), 1)

\* a length and as many cells
DecodeCounted(cursor) ==
  IF cursor.rest = << >> \/ Len(cursor.rest) < 1 + Head(cursor.rest) THEN Short
  ELSE LET n == Head(cursor.rest) IN Take(cursor, SubSeq(cursor.rest, 2, n + 1), n + 1)

DecodeString(cursor) == IF cursor.ok THEN DecodeCounted(cursor) ELSE Short

Strings(n, cursor) ==
  LET read[i \in 0..n] == IF i = 0 THEN cursor ELSE DecodeString(read[i - 1])
  IN  read[n]

DecodeNames(cursor) ==
  IF cursor.rest = << >> THEN Short
  ELSE LET names == Strings(Head(cursor.rest), Cursor(Tail(cursor.rest)))
       IN  IF names.ok THEN [names EXCEPT !.got = Append(cursor.got, names.got)] ELSE Short

\* (faulty: reads on behind the end that the length gives)
DecodeStatUnframed(cursor) ==
  LET sized == DecodeNumber(cursor)
      fixed == DecodeNumber(Cursor(sized.rest))
      inner == Strings(4, [fixed EXCEPT !.got = << >>])
      stat == [fixed |-> Head(fixed.got), strings |-> inner.got]
  IN  IF sized.ok /\ inner.ok THEN [inner EXCEPT !.got = Append(cursor.got, stat)] ELSE Short

DecodeStat(cursor) ==
  LET outer == DecodeCounted(cursor)
      fixed == DecodeNumber(Cursor(Last(outer.got)))
      inner == Strings(4, [fixed EXCEPT !.got = << >>])
      stat == [fixed |-> Head(fixed.got), strings |-> inner.got]
  IN  IF outer.ok /\ inner.ok THEN [outer EXCEPT !.got = Append(cursor.got, stat)] ELSE Short

DecodeField(cursor, kind) ==
  CASE ~cursor.ok -> Short
    [] cursor.ok /\ kind = "number" -> DecodeNumber(cursor)
    [] cursor.ok /\ kind \in {"string", "qids", "data"} -> DecodeCounted(cursor)
    [] cursor.ok /\ kind = "names" -> DecodeNames(cursor)
    [] cursor.ok /\ kind = "stat" -> DecodeStat(cursor)

Decode(format, body) ==
  LET read[i \in 0..Len(format)] == IF i = 0 THEN Cursor(body) ELSE DecodeField(read[i - 1], format[i])
  IN  read[Len(format)]

-----------------------------------------------------------------------------
\* All strings, names and qids of a field are as many as their length says.  The length of
\* a whole stat may still be cut.
Counted(kind, value) ==
  CASE kind \in {"string", "qids"} -> Len(value) < LengthModulus
    [] kind = "names" -> /\ Len(value) < LengthModulus
                         /\ \A i \in 1..Len(value) : Len(value[i]) < LengthModulus
    [] kind = "stat" -> \A i \in 1..Len(value.strings) : Len(value.strings[i]) < LengthModulus
    [] kind \in {"number", "data"} -> TRUE

AllCounted(format, values) == \A i \in 1..Len(format) : Counted(format[i], values[i])
==============================================================================
