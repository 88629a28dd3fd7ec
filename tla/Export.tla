------------------------------- MODULE Export -------------------------------
(***************************************************************************)
(* The download of a room: the server writes the room's events, reviewed   *)
(* texts, projections and their provenance as one JSON or CSV document     *)
(* (governance-service.ts), the browser reads the bytes under a limit,     *)
(* parses and validates the document again (session-gateway.ts), and only  *)
(* then saves it (teacher-control-panel.tsx).                              *)
(*                                                                         *)
(* A text is a sequence of symbols: the three that CSV treats specially,   *)
(* the record types, and identities standing for the rest of a record.     *)
(***************************************************************************)
EXTENDS Naturals, SequencesExt

CONSTANTS MaxRoomEvents, \* bound: events of the room
          MaxRows,       \* the export's row limit
          MaxSize        \* the export's byte limit, on both sides

ASSUME ExportBounds == MaxRoomEvents \in Nat /\ MaxRows \in Nat /\ MaxSize \in Nat

VARIABLES
  ledger,    \* the room's events, those with a reviewed text, its projections
  door,      \* what the room allows: "open", "deleting" or "expired"
  download,  \* idle, asked, streaming, ended, broken, saved or refused
  format,    \* of the download in progress
  sent,      \* the ledger the server wrote from
  declared,  \* the response states its length
  got        \* symbols that arrived

exportVars == <<ledger, door, download, format, sent, declared, got>>

-----------------------------------------------------------------------------
(* Symbols. *)
Header == 0
Quote == 1
Comma == 2
Newline == 3
Brace == 4
RecordTypes == [manifest |-> 5, event |-> 6, artifact |-> 7, projection |-> 8,
                artifact_provenance |-> 9, projection_provenance |-> 10]
Identity(n) == 11 + n

(* JSON.stringify of an object: quoted names, commas and an empty string; a
   line break inside a value is escaped, so none appears. *)
Json(n) == <<Brace, Quote, Identity(n), Quote, Comma, Quote, Quote, Brace>>
JsonValue(text) == text[3] - 11
IsJson(text) == Len(text) = Len(Json(0)) /\ text[3] >= 11 /\ text = Json(JsonValue(text))

-----------------------------------------------------------------------------
(* The server's document. *)

Projections == {"echo", "trace"}
ProjectionNumber(p) == IF p = "echo" THEN 1 ELSE 2

(* The numbers of S up to n, in their order: ORDER BY. *)
Ascending(S, n) ==
  LET s[i \in 0..n] == IF i = 0 THEN <<>>
                       ELSE IF i \in S THEN Append(s[i - 1], i) ELSE s[i - 1]
  IN  s[n]

(* The rows read in one transaction under the room's lock: identities of the
   events by roomSeq, of the reviewed texts by their event, of the newest
   teacher projections, and the provenance of both. *)
Document(room) ==
  LET texts == Ascending(room.texts, room.events)
      maps  == Ascending({ProjectionNumber(p) : p \in room.maps}, 2)
  IN  [throughRoomSeq |-> room.events,
       events |-> [i \in 1..room.events |-> i],
       artifacts |-> texts, projections |-> maps,
       artifactSources |-> texts, projectionSources |-> maps]

(* A faulty variant: provenance may name fewer events than the manifest counts. *)
SemanticsUncounted(doc) ==
  /\ \A i \in DOMAIN doc.events : doc.events[i] = i
  /\ doc.artifactSources = doc.artifacts
  /\ doc.projectionSources = doc.projections

(* assertSemantics: as many events as the manifest counts, in order and
   without a gap; each text has its event and, once, its source; each
   projection its source; no source is left over. *)
Semantics(doc) ==
  /\ Len(doc.events) = doc.throughRoomSeq
  /\ \A i \in DOMAIN doc.events : doc.events[i] = i
  /\ Len(doc.artifactSources) = Len(doc.artifacts)
  /\ ToSet(doc.artifactSources) = ToSet(doc.artifacts)
  /\ ToSet(doc.artifacts) \subseteq 1..doc.throughRoomSeq
  /\ \A i, j \in DOMAIN doc.artifacts : i < j => doc.artifacts[i] < doc.artifacts[j]
  /\ Len(doc.projectionSources) = Len(doc.projections)
  /\ ToSet(doc.projectionSources) = ToSet(doc.projections)
  /\ IsInjective(doc.projections)

(* A faulty variant: quotes inside a field are written as they are. *)
CsvUndoubled(text) ==
  IF {Quote, Comma, Newline} \cap ToSet(text) = {} THEN text
  ELSE <<Quote>> \o text \o <<Quote>>

(* csv(): a field with a quote, comma or line break is quoted and its quotes
   doubled. *)
Csv(text) ==
  IF {Quote, Comma, Newline} \cap ToSet(text) = {} THEN text
  ELSE <<Quote>>
       \o FlattenSeq([i \in DOMAIN text |->
                        IF text[i] = Quote THEN <<Quote, Quote>> ELSE <<text[i]>>])
       \o <<Quote>>

(* rows of exportCsv(): the manifest and the five lists, in this order. *)
Listed(type, ns) == [i \in 1..Len(ns) |-> [type |-> type, n |-> ns[i]]]
Rows(doc) ==
  FlattenSeq(<<Listed("manifest", <<doc.throughRoomSeq>>),
               Listed("event", doc.events), Listed("artifact", doc.artifacts),
               Listed("projection", doc.projections),
               Listed("artifact_provenance", doc.artifactSources),
               Listed("projection_provenance", doc.projectionSources)>>)

Row(row) == <<RecordTypes[row.type], Comma>> \o Csv(Json(row.n)) \o <<Newline>>

(* exportCsv(): the header, and a line for each row. *)
ExportCsv(doc) ==
  LET rows == Rows(doc)
  IN  <<Header>> \o FlattenSeq([i \in 1..Len(rows) |-> Row(rows[i])])

(* The JSON form: one value that is not JSON before its last brace. *)
ExportJson(doc) == <<Brace>> \o Tail(ExportCsv(doc)) \o <<Brace>>

Encoded(f, doc) == IF f = "json" THEN ExportJson(doc) ELSE ExportCsv(doc)

(* What stops an export: the room is being deleted, its retention policy is
   over, it has more rows than the limit, or the text is too long. *)
Exportable(room, f) ==
  /\ door = "open"
  /\ room.events <= MaxRows
  /\ Semantics(Document(room))
  /\ Len(Encoded(f, Document(room))) <= MaxSize

-----------------------------------------------------------------------------
(* The browser's reading of it. *)

(* parseCsvRecords: one pass over the symbols after the header.  A quote opens a
   field only at its start; inside, two quotes are one. *)
ParserStart == [records |-> <<>>, row |-> <<>>, field |-> <<>>, started |-> FALSE,
                quoted |-> FALSE, after |-> FALSE, skip |-> FALSE, bad |-> FALSE]

FinishField(s) == [s EXCEPT !.row = Append(@, s.field), !.field = <<>>,
                            !.started = FALSE, !.after = FALSE]
FinishRecord(s) ==
  LET row == FinishField(s).row
  IN  IF Len(row) # 2 \/ row[1] = <<>> \/ row[2] = <<>>
      THEN [s EXCEPT !.bad = TRUE]
      ELSE [FinishField(s) EXCEPT !.records = Append(@, row), !.row = <<>>]

ParseSymbol(s, text, i) ==
  LET c == text[i]
      keep == [s EXCEPT !.field = Append(@, c)]
  IN  CASE s.bad -> s
        [] ~s.bad /\ s.skip -> [s EXCEPT !.skip = FALSE]
        [] ~s.bad /\ ~s.skip /\ s.quoted ->
             IF c # Quote THEN keep
             ELSE IF i < Len(text) /\ text[i + 1] = Quote THEN [keep EXCEPT !.skip = TRUE]
             ELSE [s EXCEPT !.quoted = FALSE, !.after = TRUE]
        [] OTHER ->
             CASE c = Comma   -> FinishField(s)
               [] c = Newline -> FinishRecord(s)
               [] c = Quote /\ ~s.after /\ ~s.started /\ s.field = <<>> ->
                    [s EXCEPT !.started = TRUE, !.quoted = TRUE]
               [] c # Quote /\ c # Comma /\ c # Newline /\ ~s.after ->
                    [keep EXCEPT !.started = TRUE]
               [] OTHER -> [s EXCEPT !.bad = TRUE]

ParseCsvRecords(text) ==
  LET input == Tail(text)
      s[i \in 0..Len(input)] == IF i = 0 THEN ParserStart ELSE ParseSymbol(s[i - 1], input, i)
      end   == s[Len(input)]
      whole == ~end.quoted /\ ~end.after /\ ~end.started /\ end.field = <<>>
               /\ end.row = <<>>
  IN  [ok |-> ~end.bad /\ whole, records |-> end.records]

(* The loop of validateCsvExport: each record's value joins the list of its type. *)
Filed(lists, r) ==
  [type \in DOMAIN RecordTypes |->
     IF r[1] = <<RecordTypes[type]>> THEN Append(lists[type], JsonValue(r[2])) ELSE lists[type]]
FiledRecords(records) ==
  LET f[i \in 0..Len(records)] == IF i = 0 THEN [type \in DOMAIN RecordTypes |-> <<>>]
                                  ELSE Filed(f[i - 1], records[i])
  IN  f[Len(records)]

(* validateCsvExport: one manifest, known record types, and the contract. *)
ValidateCsvExport(text) ==
  /\ Len(text) > 0 /\ text[1] = Header /\ Last(text) = Newline
  /\ ParseCsvRecords(text).ok
  /\ LET records == ParseCsvRecords(text).records
         lists   == FiledRecords(records)
     IN  /\ \A i \in 1..Len(records) :
              /\ \E type \in DOMAIN RecordTypes : records[i][1] = <<RecordTypes[type]>>
              /\ IsJson(records[i][2])
         /\ Len(lists["manifest"]) = 1
         /\ Semantics([throughRoomSeq |-> lists["manifest"][1],
                       events |-> lists["event"], artifacts |-> lists["artifact"],
                       projections |-> lists["projection"],
                       artifactSources |-> lists["artifact_provenance"],
                       projectionSources |-> lists["projection_provenance"]])

(* validateJsonExport: a text cut short is not JSON. *)
ValidateJsonExport(text) ==
  /\ Len(text) > 1 /\ text[1] = Brace /\ Last(text) = Brace
  /\ ValidateCsvExport(<<Header>> \o Front(Tail(text)))

Valid(f, text) == IF f = "json" THEN ValidateJsonExport(text) ELSE ValidateCsvExport(text)

-----------------------------------------------------------------------------
(* The room changes while nobody holds its lock. *)
Write ==
  /\ door = "open" /\ ledger.events < MaxRoomEvents
  /\ \E text \in BOOLEAN :
       ledger' = [ledger EXCEPT !.events = @ + 1,
                    !.texts = IF text THEN @ \cup {ledger.events + 1} ELSE @]
  /\ UNCHANGED <<door, download, format, sent, declared, got>>

Project ==
  /\ door = "open" /\ ledger.events > 0
  /\ \E p \in Projections \ ledger.maps : ledger' = [ledger EXCEPT !.maps = @ \cup {p}]
  /\ UNCHANGED <<door, download, format, sent, declared, got>>

Shut ==
  /\ door = "open"
  /\ door' \in {"deleting", "expired"}
  /\ UNCHANGED <<ledger, download, format, sent, declared, got>>

(* download(): one at a time, the buttons being disabled while it runs. *)
Ask ==
  /\ download \in {"idle", "saved", "refused"}
  /\ download' = "asked"
  /\ format' \in {"json", "csv"}
  /\ got' = 0
  /\ UNCHANGED <<ledger, door, sent, declared>>

(* exportRoom(): the document as of this transaction, or an error. *)
ServeExport ==
  /\ download = "asked"
  /\ IF Exportable(ledger, format)
     THEN /\ download' = "streaming"
          /\ sent' = ledger
          /\ declared' \in BOOLEAN
     ELSE download' = "refused" /\ UNCHANGED <<sent, declared>>
  /\ UNCHANGED <<ledger, door, format, got>>

Text == Encoded(format, Document(sent))

(* The body arrives: whole, or cut short with an error the reader sees or, from
   an intermediary that delimits it by closing, without one. *)
EndOfBody ==
  /\ download = "streaming"
  /\ got' \in 0..Len(Text)
  /\ download' \in IF got' = Len(Text) THEN {"ended"} ELSE {"ended", "broken"}
  /\ UNCHANGED <<ledger, door, format, sent, declared>>

(* readBoundedExportText, then the validation, then saveRoomExport. *)
Finish ==
  /\ download \in {"ended", "broken"}
  /\ download' = IF /\ download = "ended"
                    /\ got <= MaxSize
                    /\ declared => got = Len(Text)
                    /\ Valid(format, SubSeq(Text, 1, got))
                 THEN "saved" ELSE "refused"
  /\ UNCHANGED <<ledger, door, format, sent, declared, got>>

-----------------------------------------------------------------------------
ExportInit ==
  /\ ledger = [events |-> 0, texts |-> {}, maps |-> {}]
  /\ door = "open" /\ download = "idle" /\ format = "json"
  /\ sent = ledger /\ declared = FALSE /\ got = 0

ExportNext ==
  \/ Write \/ Project \/ Shut \/ Ask \/ ServeExport \/ EndOfBody \/ Finish

ExportSpec == ExportInit /\ [][ExportNext]_exportVars

-----------------------------------------------------------------------------
(* Properties. *)

(* The symbols of a CSV document up to and including its last event. *)
LedgerPart(doc) ==
  Len(ExportCsv([doc EXCEPT !.artifacts = <<>>, !.projections = <<>>,
                            !.artifactSources = <<>>, !.projectionSources = <<>>]))

(* A saved file is the whole document the server wrote.  One cut can pass the
   validation: a CSV body of undeclared length that ends exactly after the last
   event, because the manifest counts the events only.  Every event the
   manifest counts is in the file even then, and no text or projection is there
   without the others (validateCsvExport, assertSemantics). *)
SavedHoldsLedger ==
  download = "saved" =>
    \/ got = Len(Text)
    \/ format = "csv" /\ ~declared /\ got = LedgerPart(Document(sent))

(* A document that arrived whole is saved: what the server's encoder writes, the
   browser's parser reads back (csv, parseCsvRecords, assertSemantics). *)
WholeIsSaved ==
  [][download = "ended" /\ got = Len(Text) /\ download' # download
       => download' = "saved"]_exportVars
=============================================================================
