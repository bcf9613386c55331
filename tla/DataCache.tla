------------------------------- MODULE DataCache -------------------------------
(* The download caches of the data helpers: call_reports_utils.py (bundles    *)
(* and BHCF tables), form_5500_utils.py, open_bond_pricing_utils.py,          *)
(* treasury_yields_utils.py (the Fed's curves, and those of Liu and Wu),      *)
(* deepvest_utils.py, hrs_scf_utils.py and bls_census_utils.py.  No helper    *)
(* takes a lock.  Several processes of one project call one helper for one    *)
(* item, responses end early, and a process may be killed anywhere: which     *)
(* file stands at the cache's name then, and what does a caller get?          *)
EXTENDS Naturals, FiniteSets

CONSTANTS
    Callers,        \* processes that use the helper
    Sources         \* the helpers considered

(* What sets the helpers apart: the name of the temporary file, whether a     *)
(* failed request removes it, whether a download begins by removing it,       *)
(* whether the response is streamed into it, what would notice that a         *)
(* response ended early (the bytes are parsed before they are cached, their   *)
(* number is compared with the announced one, or nothing is), whether the     *)
(* caller gets what was fetched or reads the cache back, what a caller gets   *)
(* of an incomplete file and of a response that ended early, and which cached *)
(* files are fetched again.                                                   *)
Ordinary == [temp |-> "shared", drops |-> FALSE, clears |-> FALSE, streams |-> FALSE,
             checks |-> "parsed", reads |-> FALSE, torn |-> "unreadable", early |-> "refused",
             heals |-> "nothing"]

Ffiec == [Ordinary EXCEPT !.checks = "nothing"]
DeepVest == Ordinary
Form5500 == [Ordinary EXCEPT !.clears = TRUE, !.streams = TRUE, !.checks = "length", !.reads = TRUE]
Schedule == [Ordinary EXCEPT !.temp = "none"]
Osbap == [Ordinary EXCEPT !.drops = TRUE, !.streams = TRUE, !.checks = "nothing", !.reads = TRUE]

(* Mutant: the temporary file is named after the destination alone.           *)
TreasuryShared ==
    [Ordinary EXCEPT !.streams = TRUE, !.checks = "nothing", !.reads = TRUE,
                     !.torn = "torn", !.early = "short"]

Treasury ==
    [Ordinary EXCEPT !.temp = "own", !.streams = TRUE, !.checks = "nothing", !.reads = TRUE,
                     !.torn = "torn", !.early = "short"]

LiuWu == [Treasury EXCEPT !.heals = "page"]
Bhcf == [Ordinary EXCEPT !.temp = "none", !.checks = "nothing", !.early = "short", !.heals = "empty"]
Tables == [Ordinary EXCEPT !.temp = "none", !.heals = "unreadable"]

Trait == [ffiec |-> Ffiec, deepvest |-> DeepVest, form5500 |-> Form5500, schedule |-> Schedule,
          osbap |-> Osbap, treasury |-> Treasury, liuwu |-> LiuWu, bhcf |-> Bhcf, tables |-> Tables]

ASSUME CacheAssumption ==
    /\ Sources \subseteq DOMAIN Trait
    /\ IsFiniteSet(Callers)

VARIABLES
    source,         \* the helper at work
    data,           \* inode -> chunk -> what is in it
    cache,          \* the inode at the cache's name
    csv,            \* the one beside it, when a table could not be written
    part,           \* the one at the shared temporary name
    own,            \* the one at the temporary name of a process
    call,           \* process -> its call
    raced,          \* ghost: two processes wrote at the same time
    stopped         \* ghost: files a writer of which was stopped

names == <<cache, csv, part, own>>
ghosts == <<raced, stopped>>
cacheVars == <<source, data, names, call, ghosts>>

Chunks == 1..2
NoFile == 0
Inodes == 1..(2 * Cardinality(Callers) + 3)
T == Trait[source]

Kinds == {"item", "nothing", "older release", "cut", "page"}
Unwritten == [k \in Chunks |-> "nothing"]
Torn(i) == \E k \in Chunks : data[i][k] = "nothing"
EndedEarly(i) == \E k \in Chunks : data[i][k] = "cut"

(* A table without a row, or Google's page in place of the curves.            *)
Useless(i) ==
    \/ T.heals = "empty" /\ \E k \in Chunks : data[i][k] = "older release"
    \/ T.heals = "page" /\ \E k \in Chunks : data[i][k] = "page"

Open == {call[c].file : c \in Callers}
Named == {cache, csv, part} \cup {own[c] : c \in Callers}
Fresh == CHOOSE i \in Inodes : i \notin Open \cup Named

NoCall == [at |-> "idle", file |-> NoFile, wrote |-> 0, response |-> "whole", got |-> "nothing"]

(* An earlier release cached BHCF tables without a row.                       *)
CacheInit ==
    /\ source \in Sources
    /\ \/ cache = NoFile /\ data = [i \in Inodes |-> Unwritten]
       \/ /\ source = "bhcf" /\ cache = 1
          /\ data = [i \in Inodes |-> IF i = 1 THEN [k \in Chunks |-> "older release"] ELSE Unwritten]
    /\ csv = NoFile /\ part = NoFile /\ own = [c \in Callers |-> NoFile]
    /\ call = [c \in Callers |-> NoCall]
    /\ raced = FALSE /\ stopped = {}

-----------------------------------------------------------------------------
Moves(c, to) == call' = [call EXCEPT ![c] = to]
Goes(c, at) == Moves(c, [call[c] EXCEPT !.at = at])
Gives(c, got) == Moves(c, [NoCall EXCEPT !.at = "ended", !.got = got])

(* The caller gets what was fetched.                                          *)
GivesFetched(c) == Gives(c, IF call[c].response = "cut" THEN T.early ELSE "whole")

(* A writer that does not finish its file.                                    *)
Abandons(c) == stopped' = stopped \cup (({call[c].file} \cap {cache, part}) \ {NoFile})

Enter(c) ==
    /\ call[c].at = "idle"
    /\ \E refresh \in BOOLEAN :
         /\ refresh => source \notin {"treasury", "liuwu"}
         /\ Goes(c, IF refresh \/ (cache = NoFile /\ csv = NoFile) THEN "clear" ELSE "read")
    /\ UNCHANGED <<source, data, names, ghosts>>

-----------------------------------------------------------------------------
(* A cached file.  Archives and tables end with their directory, so that an   *)
(* incomplete one raises; an incomplete CSV is only shorter, unless it is     *)
(* empty or ends within a quoted field.                                       *)
Fallback(c) ==
    \/ csv = NoFile /\ Goes(c, "clear")
    \/ csv # NoFile /\ ~Torn(csv) /\ Gives(c, "whole")
    \/ csv # NoFile /\ Torn(csv) /\ Gives(c, "unreadable")
    \/ csv # NoFile /\ Torn(csv) /\ data[csv] # Unwritten /\ Gives(c, "torn")

(* Mutant: a table that cannot be read is an error.                           *)
LoadsOrRaises(c) ==
    \/ cache # NoFile /\ ~Torn(cache) /\ Gives(c, "whole")
    \/ cache # NoFile /\ Torn(cache) /\ Gives(c, "unreadable")
    \/ cache = NoFile /\ Fallback(c)

CacheLoad(c) ==
    \/ cache # NoFile /\ ~Torn(cache) /\ Gives(c, "whole")
    \/ (cache # NoFile => Torn(cache)) /\ Fallback(c)

ReadCache(c) ==
    \/ cache = NoFile /\ Gives(c, "gone")
    \/ /\ cache # NoFile
       /\ IF Useless(cache) THEN Goes(c, "remove")
          ELSE Gives(c, IF Torn(cache) THEN T.torn
                        ELSE IF EndedEarly(cache) THEN T.early ELSE "whole")

Read(c) ==
    /\ call[c].at = "read"
    /\ IF T.heals = "unreadable" THEN CacheLoad(c) ELSE ReadCache(c)
    /\ UNCHANGED <<source, data, names, ghosts>>

(* y9c removes an empty table before it fetches it again, _load_gsheet_csv a  *)
(* page before it raises.                                                     *)
RemoveUseless(c) ==
    /\ call[c].at = "remove" /\ cache' = NoFile
    /\ IF cache = NoFile THEN Gives(c, "gone")
       ELSE IF T.heals = "page" THEN Gives(c, "no answer") ELSE Goes(c, "clear")
    /\ UNCHANGED <<source, data, csv, part, own, ghosts>>

-----------------------------------------------------------------------------
(* A download *)

Clear(c) ==
    /\ call[c].at = "clear" /\ Goes(c, "fetch")
    /\ part' = IF T.clears THEN NoFile ELSE part
    /\ UNCHANGED <<source, data, cache, csv, own, ghosts>>

(* No connection, or a response that cannot be used; the Open Bond helper     *)
(* removes the temporary name then, whoever writes there.                     *)
NoAnswer(c) ==
    /\ call[c].at = "fetch" /\ Gives(c, "no answer")
    /\ part' = IF T.drops THEN NoFile ELSE part
    /\ UNCHANGED <<source, data, cache, csv, own, ghosts>>

(* A response that is fetched into memory ends early, and nothing in the code *)
(* notices it.                                                                *)
EndsUnnoticed(c) ==
    /\ call[c].at = "fetch" /\ ~T.streams /\ T.checks = "nothing"
    /\ Moves(c, [call[c] EXCEPT !.response = "cut"])
    /\ UNCHANGED <<source, data, names, ghosts>>

(* Google answers with a page when it limits its callers.                     *)
ServesPage(c) ==
    /\ call[c].at = "fetch" /\ T.heals = "page"
    /\ Moves(c, [call[c] EXCEPT !.response = "page"])
    /\ UNCHANGED <<source, data, names, ghosts>>

(* Mutant: a transfer that stalls is taken for the end of the file.           *)
StallUnnoticed(c) ==
    /\ call[c].at = "write" /\ T.streams /\ Goes(c, "rename")
    /\ UNCHANGED <<source, data, names, ghosts>>

(* The transfer stalls or exceeds its budget; what was written stays.         *)
TransferStalls(c) ==
    /\ call[c].at = "write" /\ T.streams /\ Gives(c, "no answer") /\ Abandons(c)
    /\ UNCHANGED <<source, data, names, raced>>

(* open(name, "wb"): the file at the name is emptied, a missing one is made.  *)
Opens(c, name, at) ==
    LET i == IF name = NoFile THEN Fresh ELSE name
    IN  /\ data' = [data EXCEPT ![i] = Unwritten]
        /\ Moves(c, [call[c] EXCEPT !.at = at, !.file = i, !.wrote = 0])
        /\ raced' = (raced \/ \E d \in Callers \ {c} : call[d].file # NoFile)
        /\ stopped' = stopped \ {i}

OpenPart(c) ==
    /\ call[c].at = "fetch" /\ T.temp = "shared" /\ Opens(c, part, "write")
    /\ part' = call'[c].file /\ UNCHANGED <<source, cache, csv, own>>

OpenOwnPart(c) ==
    /\ call[c].at = "fetch" /\ T.temp = "own" /\ Opens(c, own[c], "write")
    /\ own' = [own EXCEPT ![c] = call'[c].file] /\ UNCHANGED <<source, cache, csv, part>>

OpenTable(c) ==
    /\ call[c].at = "fetch" /\ T.temp = "none" /\ Opens(c, cache, "write")
    /\ cache' = call'[c].file /\ UNCHANGED <<source, csv, part, own>>

(* A table that cannot be written as parquet, or not all of it, goes into a   *)
(* CSV.                                                                       *)
OpenCsv(c) ==
    /\ call[c].at \in {"fetch", "write"} /\ T.heals = "unreadable" /\ call[c].file # csv
    /\ Opens(c, csv, "write")
    /\ csv' = call'[c].file /\ UNCHANGED <<source, cache, part, own>>

Write(c) ==
    /\ call[c].at = "write" /\ call[c].wrote + 1 \in Chunks
    /\ data' = [data EXCEPT ![call[c].file][call[c].wrote + 1] =
                    IF call[c].response = "whole" THEN "item" ELSE call[c].response]
    /\ Moves(c, [call[c] EXCEPT !.wrote = @ + 1])
    /\ UNCHANGED <<source, names, ghosts>>

Complete(c) == call[c].wrote + 1 \notin Chunks

(* A streamed response ends early.  Where its length was announced, and is    *)
(* compared, the temporary name is removed; else the file is taken for whole. *)
EndsEarly(c) ==
    /\ call[c].at = "write" /\ T.streams /\ ~Complete(c)
    /\ \E announced \in BOOLEAN :
         \/ /\ announced /\ T.checks = "length"
            /\ Gives(c, "no answer") /\ part' = NoFile /\ Abandons(c) /\ UNCHANGED data
         \/ /\ ~(announced /\ T.checks = "length")
            /\ data' = [data EXCEPT ![call[c].file] =
                  [k \in Chunks |-> IF k > call[c].wrote /\ @[k] = "nothing" THEN "cut" ELSE @[k]]]
            /\ Goes(c, "rename") /\ UNCHANGED <<part, stopped>>
    /\ UNCHANGED <<source, cache, csv, own, raced>>

Close(c) ==
    /\ call[c].at = "write" /\ Complete(c)
    /\ IF T.temp = "none" THEN GivesFetched(c) ELSE Goes(c, "rename")
    /\ UNCHANGED <<source, data, names, ghosts>>

(* os.replace moves whatever stands at the temporary name by then.            *)
Handed(c) == IF T.reads THEN Moves(c, [NoCall EXCEPT !.at = "read"]) ELSE GivesFetched(c)

Rename(c) ==
    /\ call[c].at = "rename" /\ T.temp = "shared"
    /\ IF part = NoFile
       THEN Gives(c, "gone") /\ UNCHANGED <<cache, part>>
       ELSE Handed(c) /\ cache' = part /\ part' = NoFile
    /\ UNCHANGED <<source, data, csv, own, ghosts>>

RenameOwn(c) ==
    /\ call[c].at = "rename" /\ T.temp = "own"
    /\ cache' = own[c] /\ own' = [own EXCEPT ![c] = NoFile]
    /\ Handed(c) /\ UNCHANGED <<source, data, csv, part, ghosts>>

-----------------------------------------------------------------------------
Return(c) ==
    /\ call[c].at = "ended" /\ Moves(c, NoCall)
    /\ UNCHANGED <<source, data, names, ghosts>>

(* The next process has another temporary name.                               *)
Kill(c) ==
    /\ call[c].at \notin {"idle", "ended"} /\ Moves(c, NoCall) /\ Abandons(c)
    /\ own' = [own EXCEPT ![c] = NoFile]
    /\ UNCHANGED <<source, data, cache, csv, part, raced>>

CacheNext == \E c \in Callers :
    \/ Enter(c) \/ Read(c) \/ RemoveUseless(c)
    \/ Clear(c) \/ NoAnswer(c) \/ EndsUnnoticed(c) \/ ServesPage(c) \/ TransferStalls(c)
    \/ OpenPart(c) \/ OpenOwnPart(c) \/ OpenTable(c) \/ OpenCsv(c)
    \/ Write(c) \/ EndsEarly(c) \/ Close(c) \/ Rename(c) \/ RenameOwn(c)
    \/ Return(c) \/ Kill(c)

CacheSpec == CacheInit /\ [][CacheNext]_cacheVars

-----------------------------------------------------------------------------
CallPlaces == {"idle", "read", "remove", "clear", "fetch", "write", "rename", "ended"}
Results == {"nothing", "whole", "torn", "unreadable", "short", "refused", "gone", "no answer"}

(* A name leads to one file or to none, and only a helper that has temporary  *)
(* names of its own uses them (the helpers' _download and _cache_save).       *)
CacheTypeOK ==
    /\ source \in Sources
    /\ data \in [Inodes -> [Chunks -> Kinds]]
    /\ {cache, csv, part} \subseteq Inodes \cup {NoFile}
    /\ own \in [Callers -> Inodes \cup {NoFile}]
    /\ \A c \in Callers : own[c] # NoFile => T.temp = "own"
    /\ call \in [Callers -> [at : CallPlaces, file : Inodes \cup {NoFile}, wrote : Chunks \cup {0},
                            response : {"whole", "cut", "page"}, got : Results]]
    /\ raced \in BOOLEAN /\ stopped \subseteq Inodes

(* A helper that renames a temporary file into place leaves no file at the    *)
(* cache's name that was not written to the end of its response, whenever its *)
(* process is killed.  It takes two processes that share the temporary name,  *)
(* and then the file is incomplete only while one of them still writes it, or *)
(* for good once that one was stopped.                                        *)
RenamedIsWhole ==
    cache # NoFile /\ T.temp # "none" /\ Torn(cache) =>
        /\ T.temp = "shared" /\ raced
        /\ cache \in stopped \/ \E c \in Callers : call[c].at = "write" /\ call[c].file = cache

(* Nobody is given the table of an incomplete file, but from the CSV that     *)
(* stands in for a table: the process number in the temporary name keeps      *)
(* concurrent downloads of the Treasury curves, which are CSVs too, apart     *)
(* (treasury_yields_utils._download).                                         *)
ShortHasCause ==
    \A c \in Callers : call[c].got = "torn" => source = "tables" /\ csv # NoFile

(* What killed processes left behind fails a later call only where a table is *)
(* written in place (Form 5500 schedules, BHCF), or a CSV stands in for one   *)
(* (_cache_load reads it unguarded); a helper that renames must also have had *)
(* two processes that wrote at the same time.                                 *)
UnreadableHasCause ==
    \A c \in Callers : call[c].got = "unreadable" =>
        \/ source \in {"schedule", "bhcf"}
        \/ source = "tables" /\ csv # NoFile
        \/ T.temp = "shared" /\ raced

(* form_5500_utils._download: "a partial download never gets cached".         *)
PartialNeverCached == cache # NoFile => ~Torn(cache)
=============================================================================
