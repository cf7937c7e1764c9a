----------------------------- MODULE LogFetchers -----------------------------
(***************************************************************************)
(* The two programs that print the log of one target for vector to         *)
(* collect: log-fetcher follows the journal of a node with a cursor, which *)
(* it keeps in a file over restarts, and canister-log-fetcher follows the  *)
(* log buffer of a canister by time.  A behaviour is one of either program *)
(* (fetcher); the target is the environment.                               *)
(*                                                                         *)
(* Abstractions.  The cursor of an entry is as many letters as its index.  *)
(* Of the fields of an entry there are the cursor, the message and a       *)
(* priority.  Waiting between requests is left out.                        *)
(***************************************************************************)
EXTENDS Integers, Sequences, SequencesExt, FiniteSets, FiniteSetsExt

CONSTANTS
    Messages,     \* the texts of log entries, sequences of bytes
    MaxEntries,   \* bound on the entries the target writes
    Batch,        \* entries asked for by one request (30 in the code)
    MaxPrinted,   \* bound on the lines of a life of canister-log-fetcher
    MaxCrashes,   \* bound on kills of the program
    MaxFailures,  \* bound on failed requests
    None          \* no counter

VARIABLES
    fetcher,     \* "journal" or "canister"
    log,         \* what the target has written: messages, or [time, counter]
    oldest,      \* the index of the first entry the target still has
    cursor,      \* of the program: 0 (none), or index of a journal entry, or
                 \* [time, counter] of the last canister entry
    file,        \* the cursor file, 0 when it is empty
    program,     \* "running", "writing" (the file is truncated), "down"
    from,        \* the cursor this life of the program started with
    out,         \* what this life printed: messages, or indices of entries
    crashes, failures

vars == <<fetcher, log, oldest, cursor, file, program, from, out, crashes, failures>>

-----------------------------------------------------------------------------
(* The journal export format (external) and parse_journal_entries_new. *)

Newline   == 10
Equals    == 61
SizeBytes == 8

Name(field) == IF field = "__CURSOR" THEN <<67>> ELSE IF field = "MESSAGE" THEN <<77>> ELSE <<80>>

\* Least byte first; lengths here are below 2^16.
Size(length) == [i \in 1..SizeBytes |-> CASE i = 1 -> length % 256 [] i = 2 -> length \div 256 [] OTHER -> 0]

\* String::from_utf8_lossy makes text of bytes: what is not UTF-8 is replaced.  A byte
\* begins a character of Width bytes; the others have to follow, the second within
\* narrower limits after some first bytes.
Replacement == <<239, 191, 189>>

Width(b) == CASE b < 128        -> 1
              [] b \in 194..223 -> 2
              [] b \in 224..239 -> 3
              [] b \in 240..244 -> 4
              [] OTHER          -> 0

Follows(part, b) ==
    /\ part # <<>> /\ b \in 128..191
    /\ Len(part) = 1 => CASE part[1] = 224 -> b >= 160
                          [] part[1] = 237 -> b < 160
                          [] part[1] = 240 -> b >= 144
                          [] part[1] = 244 -> b < 144
                          [] OTHER         -> TRUE

\* One replacement stands for all of a character that was begun and is not complete.
Completed(s) == IF s.part = <<>> THEN s.text ELSE s.text \o Replacement

Decode(s, b) ==
    LET part == Append(s.part, b)
    IN  IF Follows(s.part, b)
        THEN IF Len(part) = Width(part[1]) THEN [text |-> s.text \o part, part |-> <<>>]
             ELSE [s EXCEPT !.part = part]
        ELSE CASE Width(b) = 1 -> [text |-> Append(Completed(s), b), part |-> <<>>]
               [] Width(b) = 0 -> [text |-> Completed(s) \o Replacement, part |-> <<>>]
               [] OTHER        -> [text |-> Completed(s), part |-> <<b>>]

Lossy(bytes) ==
    LET upTo[n \in 0..Len(bytes)] ==
          IF n = 0 THEN [text |-> <<>>, part |-> <<>>] ELSE Decode(upTo[n - 1], bytes[n])
    IN  Completed(upTo[Len(bytes)])

\* A value with a newline, or that is not UTF-8, is written with its length, any
\* other as NAME=value.
Binary(value) == Contains(value, Newline) \/ Lossy(value) # value

Line(field, value) ==
    IF Binary(value)
    THEN Name(field) \o <<Newline>>
         \o Size(Len(value)) \o value \o <<Newline>>
    ELSE Name(field) \o <<Equals>> \o value \o <<Newline>>

\* The cursor of an entry, plain text.
Cursor(i) == [k \in 1..i |-> 99]

Exported(i) ==
    Line("__CURSOR", Cursor(i)) \o Line("MESSAGE", log[i]) \o Line("PRIORITY", <<54>>) \o <<Newline>>

\* The entries after one index, up to another.
Export(after, last) ==
    LET upTo[n \in 0..(last - after)] == IF n = 0 THEN <<>> ELSE upTo[n - 1] \o Exported(after + n)
    IN  upTo[last - after]

NotStarted == [mode |-> "NotStarted", left |-> 0, line |-> <<>>, lines |-> <<>>, entries |-> <<>>]

\* What the first bytes of a line of binary data say.
SizeOf(line) == line[1] + 256 * line[2]

Field(name, value) == [name |-> Lossy(name), value |-> Lossy(value)]

Split(line) ==
    LET at == Min({i \in DOMAIN line : line[i] = Equals})
    IN  Field(SubSeq(line, 1, at - 1), SubSeq(line, at + 1, Len(line)))

\* parse_journal_entry: a line with '=' is a field, a line without one is the
\* name of the field whose size and value make up the next line.
TakeLine(s, line) ==
    IF s.name # <<>>
    THEN [name |-> <<>>, fields |-> Append(s.fields, Field(s.name, SubSeq(line, SizeBytes + 1, Len(line))))]
    ELSE IF Contains(line, Equals) THEN [name |-> <<>>, fields |-> Append(s.fields, Split(line))]
    ELSE [name |-> line, fields |-> s.fields]

Fields(lines) ==
    LET upTo[n \in 0..Len(lines)] ==
          IF n = 0 THEN [name |-> <<>>, fields |-> <<>>] ELSE TakeLine(upTo[n - 1], lines[n])
    IN  upTo[Len(lines)].fields

EndLine(s) == [s EXCEPT !.mode = "NotStarted", !.line = <<>>, !.lines = Append(@, s.line)]

EndEntry(s) == [s EXCEPT !.lines = <<>>, !.entries = IF s.lines = <<>> THEN @ ELSE Append(@, Fields(s.lines))]

AfterDataAtOnce(s) == EndLine(s)

\* One more byte is read after binary data, its newline.
AfterData(s) == [EndLine(s) EXCEPT !.mode = "newline", !.left = 0]

ReadByte(s, b) ==
    LET read == [s EXCEPT !.line = Append(@, b)]
    IN  CASE s.mode = "size" /\ s.left > 1 -> [read EXCEPT !.left = @ - 1]
          [] s.mode = "size" /\ s.left = 1 ->
               IF SizeOf(read.line) = 0 THEN AfterData(read)
               ELSE [read EXCEPT !.mode = "data", !.left = SizeOf(read.line)]
          [] s.mode = "data" -> IF s.left > 1 THEN [read EXCEPT !.left = @ - 1]
                                ELSE AfterData(read)
          [] s.mode = "newline" -> [s EXCEPT !.mode = "NotStarted"]
          [] s.mode = "Started" /\ b = Equals -> [read EXCEPT !.mode = "Utf8"]
          [] s.mode = "Started" /\ b = Newline -> [EndLine(s) EXCEPT !.mode = "size", !.left = SizeBytes]
          [] s.mode = "Utf8" /\ b = Newline -> EndLine(s)
          [] s.mode = "NotStarted" /\ b = Newline -> EndEntry(s)
          [] s.mode = "NotStarted" /\ b # Newline -> [read EXCEPT !.mode = "Started"]
          [] OTHER -> read

\* The body ends within binary data: the parser panics.
Parsed(body) ==
    LET upTo[n \in 0..Len(body)] == IF n = 0 THEN NotStarted ELSE ReadByte(upTo[n - 1], body[n])
        read == upTo[Len(body)]
    IN  IF read.mode \in {"size", "data"} THEN read ELSE EndEntry(read)

HasCursor(entry) == \E i \in DOMAIN entry : entry[i].name = Name("__CURSOR")

ValueOf(entry, field) == entry[Min({i \in DOMAIN entry : entry[i].name = Name(field)})].value

\* So does the program on an entry without a cursor.
Panics(parsed) == \/ parsed.mode \in {"size", "data"}
                  \/ \E i \in DOMAIN parsed.entries : ~HasCursor(parsed.entries[i])

\* What the gateway says when it has no journal to show.
ErrorPage == <<78, 79, Newline>>

-----------------------------------------------------------------------------
(* The target.  A canister stamps entries with its clock, which does not    *)
(* move within a round, and drops the oldest ones; older canisters do not   *)
(* number their entries.                                                    *)

Counted == \A i \in DOMAIN log : log[i].counter # None

Write ==
    /\ Len(log) < MaxEntries
    /\ IF fetcher = "journal"
       THEN \E message \in Messages : log' = Append(log, message)
       ELSE \E newRound, numbered \in BOOLEAN :
              /\ log # <<>> => numbered = Counted
              /\ LET time == IF log = <<>> THEN 1 ELSE Last(log).time + IF newRound THEN 1 ELSE 0
                 IN  log' = Append(log, [time |-> time, counter |-> IF numbered THEN Len(log) ELSE None])
    /\ UNCHANGED <<fetcher, oldest, cursor, file, program, from, out, crashes, failures>>

Drop ==
    /\ fetcher = "canister" /\ oldest <= Len(log) /\ oldest' = oldest + 1
    /\ UNCHANGED <<fetcher, log, cursor, file, program, from, out, crashes, failures>>

-----------------------------------------------------------------------------
(* log-fetcher. *)

Dies == program' = "down" /\ UNCHANGED <<cursor, file, from, out>>

\* fetch_cursor: the file is made when there is none.
StartJournal ==
    /\ fetcher = "journal" /\ program = "down"
    /\ program' = "running" /\ cursor' = file /\ from' = file /\ out' = <<>>
    /\ UNCHANGED <<fetcher, log, oldest, file, crashes, failures>>

NewCursor(entries) == Len(ValueOf(Last(entries), "__CURSOR"))

\* An entry at the cursor is passed over.
Printed(entries, at) ==
    LET upTo[n \in 0..Len(entries)] ==
          IF n = 0 THEN <<>>
          ELSE IF ValueOf(entries[n], "__CURSOR") = Cursor(at) THEN upTo[n - 1]
          ELSE Append(upTo[n - 1], ValueOf(entries[n], "MESSAGE"))
    IN  upTo[Len(entries)]

\* The entries from the cursor on, without the one at it.
FetchJournal ==
    LET skip == IF cursor = 0 THEN 0 ELSE 1
        first == IF cursor = 0 THEN 1 ELSE cursor
        last == Min({Len(log), first + skip + Batch - 1})
        parsed == Parsed(Export(first + skip - 1, last))
    IN  /\ fetcher = "journal" /\ program = "running"
        /\ IF Panics(parsed) THEN Dies
           ELSE /\ out' = out \o Printed(parsed.entries, cursor)
                /\ cursor' = IF parsed.entries = <<>> THEN cursor ELSE NewCursor(parsed.entries)
                /\ UNCHANGED <<file, program, from>>
        /\ UNCHANGED <<fetcher, log, oldest, crashes, failures>>

\* The status of an answer is not looked at: an error page is parsed as well.
FetchErrorPage ==
    /\ fetcher = "journal" /\ program = "running" /\ failures < MaxFailures
    /\ failures' = failures + 1
    /\ IF Panics(Parsed(ErrorPage)) THEN Dies ELSE UNCHANGED <<cursor, file, program, from, out>>
    /\ UNCHANGED <<fetcher, log, oldest, crashes>>

\* After Ctrl-C the cursor is written: File::create truncates the file first.
StopJournal ==
    /\ fetcher = "journal" /\ program = "running"
    /\ program' = "writing" /\ file' = 0
    /\ UNCHANGED <<fetcher, log, oldest, cursor, from, out, crashes, failures>>

WriteCursor ==
    /\ program = "writing" /\ program' = "down" /\ file' = cursor
    /\ UNCHANGED <<fetcher, log, oldest, cursor, from, out, crashes, failures>>

Crash ==
    /\ fetcher = "journal" /\ program # "down" /\ crashes < MaxCrashes
    /\ crashes' = crashes + 1 /\ Dies
    /\ UNCHANGED <<fetcher, log, oldest, failures>>

-----------------------------------------------------------------------------
(* canister-log-fetcher. *)

Start == [time |-> 0, counter |-> None]

\* By time, then by counter; entries are numbered in the order they come.
Answer(time) == [k \in 1..Cardinality({i \in oldest..Len(log) : log[i].time >= time}) |->
                   Max({i \in oldest..Len(log) : log[i].time < time} \cup {oldest - 1}) + k]

\* After the entry that was printed last: the first of its time and counter.
AllOf(answer) == answer

Unseen(answer) ==
    LET at == {k \in DOMAIN answer : log[answer[k]] = cursor}
    IN  IF at = {} THEN answer ELSE SubSeq(answer, Min(at) + 1, Len(answer))

FetchCanister ==
    LET unseen == Unseen(Answer(cursor.time))
    IN  /\ fetcher = "canister" /\ program = "running" /\ Len(out) < MaxPrinted
        /\ out' = out \o unseen
        /\ cursor' = IF unseen = <<>> THEN cursor ELSE log[Last(unseen)]
        /\ UNCHANGED <<fetcher, log, oldest, file, program, from, crashes, failures>>

\* Nothing is kept over restarts.
RestartCanister ==
    /\ fetcher = "canister" /\ crashes < MaxCrashes /\ crashes' = crashes + 1
    /\ cursor' = Start /\ out' = <<>> /\ UNCHANGED <<fetcher, log, oldest, file, program, from, failures>>

-----------------------------------------------------------------------------
Init == /\ fetcher \in {"journal", "canister"}
        /\ log = <<>> /\ oldest = 1
        /\ cursor = IF fetcher = "journal" THEN 0 ELSE Start
        /\ file = 0 /\ program = "running" /\ from = 0 /\ out = <<>>
        /\ crashes = 0 /\ failures = 0

Next == \/ Write \/ Drop
        \/ StartJournal \/ FetchJournal \/ FetchErrorPage \/ StopJournal \/ WriteCursor \/ Crash
        \/ FetchCanister \/ RestartCanister

Spec == Init /\ [][Next]_vars

-----------------------------------------------------------------------------
\* The type invariant.
TypeOK ==
    /\ fetcher \in {"journal", "canister"} /\ Len(log) \in 0..MaxEntries
    /\ oldest \in 1..(MaxEntries + 1) /\ file \in 0..MaxEntries /\ from \in 0..MaxEntries
    /\ program \in {"running", "writing", "down"}
    /\ crashes \in 0..MaxCrashes /\ failures \in 0..MaxFailures

\* What the program makes of the messages it is given.
Shown(messages) == [i \in DOMAIN messages |-> Lossy(messages[i])]

\* Whatever the journal holds, newlines in a message or an empty one too, a life
\* of log-fetcher prints it from the cursor it read up to the one it has now,
\* each message with nothing changed but what is not UTF-8, in order, once, and
\* dies of nothing that it can be given for one request.
PrintsTheJournal ==
    fetcher = "journal" =>
      /\ out = SubSeq(Shown(log), from + 1, cursor)
      /\ \A after \in 0..Len(log) : ~Panics(Parsed(Export(after, Min({Len(log), after + Batch}))))

\* With numbered entries a life of canister-log-fetcher prints no entry twice
\* and keeps their order, however many share a time and whatever the canister
\* has dropped in between.
CanisterEntriesOnce ==
    fetcher = "canister" /\ Counted => \A i, j \in DOMAIN out : i < j => out[i] < out[j]
=============================================================================
