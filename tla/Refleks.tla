------------------------------- MODULE Refleks -------------------------------
(***************************************************************************)
(* refleks.Parse: the reader of .refleks run files.                        *)
(*                                                                         *)
(* A file is written by the desktop client (not in the repository) and may *)
(* be damaged before it is parsed.  Widths are scaled down: a number of    *)
(* any width, a tag and a byte of a string are one symbol each, a natural  *)
(* number.  The checksum is ideal: a seal names the payload it was         *)
(* computed from.  A zstd payload is a frame around the symbols, begun by  *)
(* a symbol above every limit, as the magic number of zstd is.             *)
(***************************************************************************)
EXTENDS Naturals, Sequences, SequencesExt

CONSTANTS Contents,       \* what the client may write
          Symbols,        \* the symbols that damage may leave
          ZstdMagic,      \* the first symbol of a zstd frame
          MaxFileName, MaxString, MaxStats, MaxRows, MaxCols, MaxPoints  \* the limits

ASSUME RefleksAssumption ==
  /\ Symbols \subseteq Nat
  /\ {MaxFileName, MaxString, MaxStats, MaxRows, MaxCols, MaxPoints} \subseteq Nat
  /\ ZstdMagic \in Nat /\ ZstdMagic > MaxFileName

VARIABLES written,   \* what the client has written, or NoContent
          file,      \* the file as it is parsed
          damaged    \* whether something has happened to it

refleksVars == <<written, file, damaged>>

NoContent == [name |-> <<>>, stats |-> <<>>, events |-> <<>>, trace |-> <<>>, env |-> <<>>]

NoFile == [magic |-> "", version |-> 0, compression |-> 0, playedAt |-> 0,
           payload |-> <<>>, seal |-> <<>>]

-----------------------------------------------------------------------------
(* Writing, as the reader expects it *)

EncodedString(string) == <<Len(string)>> \o string

\* One entry of the stats: strings carry their length.
EncodedStat(stat) ==
  EncodedString(stat.key) \o <<stat.tag>> \o
  (IF stat.tag = 1 THEN EncodedString(stat.value) ELSE stat.value)

EncodedRow(row) == <<Len(row)>> \o FlattenSeq([i \in DOMAIN row |-> EncodedString(row[i])])

\* The environment: kinds of its fields in order.
Fields == <<"string", "string", "string", "string", "string", "string",   \* app to persona
            "string", "number", "string", "number",                       \* CPU, GPU, RAM
            "number", "number", "number", "bool",                         \* display
            "string", "string", "string", "string", "string",             \* mouse
            "number", "number", "number">>                                \* sampling

\* Numbers are one symbol, a point of the trace is four.  No name is as long as
\* the magic number of zstd would have it (4 GiB).
ASSUME ContentsAssumption ==
  \A content \in Contents :
    /\ content.name \in Seq(Nat) /\ Len(content.name) < ZstdMagic
    /\ content.stats \in Seq([key : Seq(Nat), tag : 1..4, value : Seq(Nat)])
    /\ \A i \in DOMAIN content.stats :
         content.stats[i].tag # 1 => Len(content.stats[i].value) = 1
    /\ content.events \in Seq(Seq(Seq(Nat)))
    /\ content.trace \in Seq([1..4 -> Nat])
    /\ content.env \in Seq(Seq(Nat)) /\ Len(content.env) = Len(Fields)
    /\ \A i \in DOMAIN Fields : Fields[i] # "string" => Len(content.env[i]) = 1

EncodedField(kind, value) == IF kind = "string" THEN EncodedString(value) ELSE value

Encoded(content) ==
  EncodedString(content.name) \o
  <<Len(content.stats)>> \o FlattenSeq([i \in DOMAIN content.stats |-> EncodedStat(content.stats[i])]) \o
  <<Len(content.events)>> \o FlattenSeq([i \in DOMAIN content.events |-> EncodedRow(content.events[i])]) \o
  <<Len(content.trace)>> \o FlattenSeq(content.trace) \o
  FlattenSeq([i \in DOMAIN content.env |-> EncodedField(Fields[i], content.env[i])])

Compressed(symbols, compression) == IF compression = 1 THEN <<ZstdMagic>> \o symbols ELSE symbols

-----------------------------------------------------------------------------
(* Reading.  A reader holds what is left, whether all went well, what it has *)
(* read last, and the parts of the file that are complete.                   *)

Failed(r) == [r EXCEPT !.ok = FALSE]

\* io.ReadFull, binary.Read
ReadSymbols(r, n) ==
  IF ~r.ok \/ Len(r.left) < n THEN Failed(r)
  ELSE [r EXCEPT !.got = SubSeq(r.left, 1, n), !.left = SubSeq(r.left, n + 1, Len(r.left))]

\* A number that must not be above a limit.
ReadCount(r, limit) ==
  LET read == ReadSymbols(r, 1)
  IN IF read.ok /\ read.got[1] > limit THEN Failed(read) ELSE read

ReadString(r, limit) ==
  LET length == ReadCount(r, limit)
  IN IF length.ok THEN ReadSymbols(length, length.got[1]) ELSE length

\* The number of entries to be read after a count; none if it could not be read.
Entries(count) == IF count.ok THEN count.got[1] ELSE 0

\* A loop of n rounds; Read(s, k) is round k of it.
Repeat(Read(_, _), n, r) ==
  LET after[k \in 0..n] == IF k = 0 THEN r ELSE Read(after[k - 1], k)
  IN after[n]

\* A Boolean is any symbol; one means TRUE.
AsBool(symbols) == <<IF symbols = <<1>> THEN 1 ELSE 0>>

\* A later entry replaces an earlier one with its key.
Stored(stats, key, value) ==
  [k \in DOMAIN stats \cup {key} |-> IF k = key THEN value ELSE stats[k]]

ReadStat(r) ==
  LET key == ReadString(r, MaxString)
      tag == ReadSymbols(key, 1)
      value == IF tag.ok /\ tag.got = <<1>> THEN ReadString(tag, MaxString)
               ELSE IF tag.ok /\ tag.got[1] \in 2..4 THEN ReadSymbols(tag, 1)
               ELSE Failed(tag)
      kept == IF tag.got = <<4>> THEN AsBool(value.got) ELSE value.got
  IN IF value.ok THEN [value EXCEPT !.stats = Stored(@, key.got, kept)] ELSE value

ReadStats(r) ==
  LET count == ReadCount(r, MaxStats)
  IN Repeat(LAMBDA s, k : ReadStat(s), Entries(count), count)

ReadCell(r) ==
  LET cell == ReadString(r, MaxString)
  IN IF cell.ok THEN [cell EXCEPT !.row = Append(@, cell.got)] ELSE cell

ReadRow(r) ==
  LET count == ReadCount([r EXCEPT !.row = <<>>], MaxCols)
      row == Repeat(LAMBDA s, k : ReadCell(s), Entries(count), count)
  IN IF row.ok THEN [row EXCEPT !.events = Append(@, row.row)] ELSE row

ReadEvents(r) ==
  LET count == ReadCount(r, MaxRows)
  IN Repeat(LAMBDA s, k : ReadRow(s), Entries(count), count)

ReadPoint(r) ==
  LET point == ReadSymbols(r, 4)
  IN IF point.ok THEN [point EXCEPT !.trace = Append(@, point.got)] ELSE point

ReadMouseTrace(r) ==
  LET count == ReadCount(r, MaxPoints)
  IN Repeat(LAMBDA s, k : ReadPoint(s), Entries(count), count)

ReadField(r, kind) ==
  LET read == IF kind = "string" THEN ReadString(r, MaxString) ELSE ReadSymbols(r, 1)
      kept == IF kind = "bool" THEN AsBool(read.got) ELSE read.got
  IN IF read.ok THEN [read EXCEPT !.env = Append(@, kept)] ELSE read

ReadEnvironment(r) == Repeat(LAMBDA s, k : ReadField(s, Fields[k]), Len(Fields), r)

\* The name must not be blank; a blank is the symbol 0.
ReadName(r) ==
  LET name == ReadString(r, MaxFileName)
  IN IF name.ok /\ \A i \in DOMAIN name.got : name.got[i] = 0 THEN Failed(name)
     ELSE [name EXCEPT !.name = name.got]

\* Variant: what follows the environment is not looked at.
EndAnywhere(r) == r

EnsureEOF(r) == IF r.left # <<>> THEN Failed(r) ELSE r

\* newPayloadReader: a frame is only read as zstd if it is one.
Opened(payload, compression) ==
  LET reader == [left |-> payload, ok |-> TRUE, got |-> <<>>, name |-> <<>>,
                 stats |-> <<>>, row |-> <<>>, events |-> <<>>, trace |-> <<>>, env |-> <<>>]
  IN CASE compression = 0 -> reader
       [] compression = 1 -> LET frame == ReadSymbols(reader, 1)
                             IN IF frame.got = <<ZstdMagic>> THEN frame ELSE Failed(frame)
       [] OTHER -> Failed(reader)

\* Variant: the checksum is not compared.
HeaderUnsealed(f) == f.magic = "RFLK" /\ f.version = 1

\* The header and the checksum.
Header(f) == f.magic = "RFLK" /\ f.version = 1 /\ f.seal = f.payload

Parse(f) ==
  EnsureEOF(ReadEnvironment(ReadMouseTrace(ReadEvents(ReadStats(ReadName(
    Opened(f.payload, f.compression)))))))

Parses(f) == Header(f) /\ Parse(f).ok

-----------------------------------------------------------------------------
RefleksInit == written = NoContent /\ file = NoFile /\ damaged = FALSE

Write ==
  /\ file = NoFile
  /\ \E content \in Contents, compression \in 0..1 :
       LET payload == Compressed(Encoded(content), compression)
       IN /\ written' = content
          /\ file' = [magic |-> "RFLK", version |-> 1, compression |-> compression,
                      playedAt |-> 1, payload |-> payload, seal |-> payload]
  /\ UNCHANGED damaged

Replaced(s, i, symbol) == [s EXCEPT ![i] = symbol]

\* One symbol of the payload is replaced, lost or added.
Altered(s) ==
  {Replaced(s, i, symbol) : i \in DOMAIN s, symbol \in Symbols} \cup
  {RemoveAt(s, i) : i \in DOMAIN s} \cup
  {InsertAt(s, i, symbol) : i \in 1..Len(s) + 1, symbol \in Symbols}

Damage ==
  /\ file # NoFile /\ ~damaged
  /\ \/ file' = [file EXCEPT !.magic = "junk"]
     \/ \E n \in {0, 2} : file' = [file EXCEPT !.version = n]
     \/ \E n \in 0..2 : file' = [file EXCEPT !.compression = n]
     \/ file' = [file EXCEPT !.playedAt = 2]
     \/ \E s \in Altered(file.payload) : file' = [file EXCEPT !.payload = s]
  /\ damaged' = TRUE
  /\ UNCHANGED written

\* A client that fails cuts the payload short, or goes on writing, before it
\* computes the checksum.
Miswrite ==
  /\ file # NoFile /\ ~damaged
  /\ \E s \in {SubSeq(file.payload, 1, n) : n \in 0..Len(file.payload) - 1} \cup
              {Append(file.payload, symbol) : symbol \in Symbols} :
       file' = [file EXCEPT !.payload = s, !.seal = s]
  /\ damaged' = TRUE
  /\ UNCHANGED written

RefleksNext == Write \/ Damage \/ Miswrite

RefleksSpec == RefleksInit /\ [][RefleksNext]_refleksVars

-----------------------------------------------------------------------------
(* Properties *)

WithinLimits(content) ==
  LET fits(string) == Len(string) <= MaxString IN
  /\ Len(content.name) <= MaxFileName
  /\ \E i \in DOMAIN content.name : content.name[i] # 0
  /\ Len(content.stats) <= MaxStats
  /\ \A i \in DOMAIN content.stats : LET stat == content.stats[i]
                                     IN fits(stat.key) /\ (stat.tag = 1 => fits(stat.value))
  /\ Len(content.events) <= MaxRows
  /\ \A i \in DOMAIN content.events : LET row == content.events[i]
                                      IN /\ Len(row) <= MaxCols
                                         /\ \A j \in DOMAIN row : fits(row[j])
  /\ Len(content.trace) <= MaxPoints
  /\ \A i \in DOMAIN Fields : Fields[i] = "string" => fits(content.env[i])

\* The last entry for each key, Booleans as 0 or 1.
Meaning(stats) ==
  LET last(key) == CHOOSE i \in DOMAIN stats :
                     /\ stats[i].key = key
                     /\ \A j \in DOMAIN stats : stats[j].key = key => j <= i
      value(stat) == IF stat.tag = 4 THEN AsBool(stat.value) ELSE stat.value
  IN [key \in {stats[i].key : i \in DOMAIN stats} |-> value(stats[last(key)])]

\* A file passes only with the very payload the client meant to write, and what
\* is read from it is what was written, field by field; a file within the limits
\* that nothing has happened to does pass.  (Only playedAt is not covered by the
\* checksum.)
AcceptedIsWritten ==
  file # NoFile =>
    /\ Parses(file) =>
         LET r == Parse(file) IN
         /\ file.payload = Compressed(Encoded(written), file.compression)
         /\ r.name = written.name /\ r.stats = Meaning(written.stats)
         /\ r.events = written.events /\ r.trace = written.trace
         /\ r.env = [i \in DOMAIN Fields |-> IF Fields[i] = "bool" THEN AsBool(written.env[i])
                                             ELSE written.env[i]]
    /\ ~damaged => (Parses(file) <=> WithinLimits(written))
=============================================================================
