----------------------------- MODULE RecordProofs -----------------------------
(***************************************************************************)
(* The record's invariants, for any number of resizers, sizes, values,     *)
(* restarts, failing calls, crashes and power cuts.                        *)
(*                                                                         *)
(* What makes them hold is the record's lock: whoever has read the record  *)
(* to change it holds the lock until it has published, so its copy is      *)
(* still the record.  What each writer may be doing in each part of the    *)
(* session's life does the rest.                                           *)
(***************************************************************************)
EXTENDS Record, TLAPS

\* A writer about to publish has the record as it is, and it is there.  (The open's
\* write reads none.)
CopyIsTheRecord ==
    \A w \in Writers : w # "create" /\ job[w].at = "publish" => copy[w] = record /\ record.on

\* Where each writer may be: only a resize waits between the terminal and the record,
\* only the stop syncs and leaves; the open's write and the clearing of the mark are
\* what keeps a session opening, and a daemon that is down writes nothing.
WritersKeepTheirPlace ==
    /\ \A w \in Writers : job[w].at = "applied" => w \in Resizers
    /\ \A w \in Writers : job[w].at \in {"sync", "out"} => w = "stop"
    /\ job["create"].at # "idle" => life = "opening" /\ starts = 0
    /\ job["clear"].at # "idle" => life = "opening" /\ starts > 0
    /\ life = "down" => \A w \in Writers : job[w].at = "idle"
    /\ life = "opening" /\ starts = 0 => ~record.on
    /\ life = "opening" /\ starts > 0 => \A w \in Writers \ {"clear"} : job[w].at = "idle"

\* The stop writes to a session that has opened; once it has marked the record it is
\* on its way out, and so nothing that would take the mark off again can begin.
StopComesLast ==
    /\ job["stop"].at \in {"publish", "sync"} => life # "opening"
    /\ job["stop"].at = "sync" => record.ended
    /\ marked /\ life # "down" => job["stop"].at = "out" /\ life # "opening"

\* The sizes on their way: the terminal has what the one resize under way asked for,
\* the session has it once the resize has told it, and with no resize under way the
\* three agree, and with them what the open is about to write.
SizesOnTheirWay ==
    life # "down" /\ ~apart =>
        /\ \A q, r \in Resizing : q = r
        /\ \A r \in Resizing : /\ terminal = job[r].value
                               /\ job[r].at # "applied" => session.size = job[r].value
        /\ Resizing = {} => /\ terminal = session.size
                            /\ record.on => record.size = session.size
                            /\ job["create"].at # "idle" => copy["create"].size = session.size

\* The conjunction that every step preserves.
RecordInv ==
    /\ TypeOK
    /\ CopyIsTheRecord
    /\ WritersKeepTheirPlace
    /\ record = last
    /\ StopComesLast
    /\ StopMarkIsDurable
    /\ SizesOnTheirWay

----------------------------------------------------------------------------
\* The names of the writers are different.
LEMMA WriterNames ==
    /\ NoOne \notin Writers
    /\ \A w \in {"create", "modes", "front", "stop", "clear"} : w \in Writers /\ w \notin Resizers
BY RecordConstants DEF Writers, NoOne

\* A writer changes its own field of the record and no other (store.go 258-330).
LEMMA UpdatedFacts ==
    ASSUME NEW w \in Writers, NEW old \in Records, job[w].value \in Nat
    PROVE  /\ Updated(w, old) \in Records
           /\ Updated(w, old).on = IF w = "create" THEN TRUE ELSE old.on
           /\ w \notin {"stop", "clear"} => Updated(w, old).ended = old.ended
           /\ w = "stop" => Updated(w, old).ended = TRUE
           /\ Updated(w, old).size = IF w \in Resizers THEN job[w].value ELSE old.size
<1>1. CASE w \in Resizers
  <2>1. Updated(w, old) = [old EXCEPT !.size = job[w].value] /\ w \notin {"create", "stop", "clear"}
    BY <1>1, WriterNames DEF Updated
  <2> QED BY <1>1, <2>1 DEF Records
<1>2. CASE w = "modes"
  <2>1. Updated(w, old) = [old EXCEPT !.modes = job[w].value] /\ w \notin Resizers
    BY <1>2, WriterNames DEF Updated
  <2> QED BY <1>2, <2>1 DEF Records
<1>3. CASE w = "front"
  <2>1. Updated(w, old) = [old EXCEPT !.front = job[w].value] /\ w \notin Resizers
    BY <1>3, WriterNames DEF Updated
  <2> QED BY <1>3, <2>1 DEF Records
<1>4. CASE w = "stop"
  <2>1. Updated(w, old) = [old EXCEPT !.ended = TRUE] /\ w \notin Resizers
    BY <1>4, WriterNames DEF Updated
  <2> QED BY <1>4, <2>1 DEF Records
<1>5. CASE w = "clear"
  <2>1. Updated(w, old) = [old EXCEPT !.ended = FALSE] /\ w \notin Resizers
    BY <1>5, WriterNames DEF Updated
  <2> QED BY <1>5, <2>1 DEF Records
<1>6. CASE w = "create"
  <2>1. Updated(w, old) = [old EXCEPT !.on = TRUE] /\ w \notin Resizers
    BY <1>6, WriterNames DEF Updated
  <2> QED BY <1>6, <2>1 DEF Records
<1> QED BY <1>1, <1>2, <1>3, <1>4, <1>5, <1>6 DEF Writers

\* A write by a copy that is the record is what the history says it is.
LEMMA WriteIsRemembered ==
    ASSUME NEW new \in Records, NEW old \in Records
    PROVE  [f \in DOMAIN old |-> IF new[f] # old[f] THEN new[f] ELSE old[f]] = new
BY DEF Records

\* The record that is not there, and a writer that writes nothing.
LEMMA NoRecordFacts ==
    /\ NoRecord \in Records /\ NoRecord.on = FALSE /\ NoRecord.ended = FALSE
    /\ NoJob.at = "idle" /\ NoJob.value = 0
BY DEF NoRecord, Records, NoJob

\* What a writer that is done leaves of its job.
LEMMA JobDone ==
    ASSUME NEW w
    PROVE  LET done == [NoJob EXCEPT !.at = IF w = "stop" THEN "out" ELSE @] IN
           done \in [at : {"idle", "out"}, value : Nat] /\ (w # "stop" => done.at = "idle")
<1>1. CASE w = "stop"
  BY <1>1 DEF NoJob
<1>2. CASE w # "stop"
  BY <1>2 DEF NoJob
<1> QED BY <1>1, <1>2

\* A session that opens has no record, and nothing is under way.
LEMMA InitEstablishesRecordInv == Init => RecordInv
<1> SUFFICES ASSUME Init PROVE RecordInv
  OBVIOUS
<1>1. TypeOK
  <2>1. PICK shell \in ShellPaths, size \in Sizes :
           /\ terminal = size /\ session = [size |-> size, started |-> 0]
           /\ made = [shell |-> shell, started |-> 0]
    BY DEF Init
  <2>2. terminal \in Nat /\ session \in [size : Nat, started : Nat]
        /\ made \in [shell : ShellPaths, started : {0}]
    BY <2>1, RecordConstants
  <2>3. starts \in 0..MaxStarts /\ writes \in 0..MaxWrites /\ events \in 0..MaxEvents
    BY RecordConstants DEF Init
  <2>4. /\ copy \in [Writers -> Records]
        /\ job \in [Writers -> [at : {"idle", "applied", "record", "publish", "sync", "out"},
                                value : Nat]]
        /\ \A w \in Writers : job[w].at \in {"publish", "sync"} <=> lock = w
    BY NoRecordFacts, WriterNames DEF Init, NoJob
  <2> QED BY <2>2, <2>3, <2>4, NoRecordFacts DEF Init, TypeOK
<1>2. CopyIsTheRecord /\ WritersKeepTheirPlace
  BY NoRecordFacts, WriterNames DEF Init, CopyIsTheRecord, WritersKeepTheirPlace
<1>3. record = last /\ StopComesLast /\ StopMarkIsDurable
  BY NoRecordFacts, WriterNames DEF Init, StopComesLast, StopMarkIsDurable
<1>4. SizesOnTheirWay
  BY NoRecordFacts, WriterNames DEF Init, SizesOnTheirWay, Resizing, Writers
<1> QED BY <1>1, <1>2, <1>3, <1>4 DEF RecordInv

----------------------------------------------------------------------------
(* Every step preserves it *)

\* A read under the lock keeps the invariant.
LEMMA ReadsKeeps ==
    ASSUME RecordInv, NEW w \in Writers, Reads(w)
    PROVE  RecordInv'
<1> USE WriterNames, NoRecordFacts, RecordConstants DEF RecordInv
<1>a. ASSUME record.on \/ w = "create" PROVE TypeOK' /\ SizesOnTheirWay'
  <2>1. /\ job[w].at = "record" /\ lock = NoOne /\ lock' = w
        /\ copy' \in [Writers -> Records]
        /\ job' = [job EXCEPT ![w].at = "publish"]
        /\ UNCHANGED apart
    BY <1>a DEF Reads, MayRead, TypeOK
  <2>2. /\ job' \in [Writers -> [at : {"idle", "applied", "record", "publish", "sync", "out"},
                                 value : Nat]]
        /\ \A v \in Writers : job'[v].at \in {"publish", "sync"} <=> lock' = v
    BY <2>1 DEF TypeOK
  <2>3. TypeOK'
    BY <2>1, <2>2 DEF TypeOK, Reads, sessionVars, boundVars
  <2>4. Resizing' = Resizing /\ \A r \in Resizers : job'[r].value = job[r].value
    BY <2>1 DEF Resizing, TypeOK, Writers
  <2>5. \A r \in Resizing' : job'[r].at # "applied" <=> job[r].at # "applied" \/ r = w
    BY <2>1, <2>4 DEF Resizing, TypeOK, Writers
  <2>6. SizesOnTheirWay'
    BY <1>a, <2>1, <2>4, <2>5
    DEF SizesOnTheirWay, Resizing, Reads, TypeOK, sessionVars, Writers
  <2> QED BY <2>3, <2>6
<1>b. ASSUME ~(record.on \/ w = "create") PROVE TypeOK' /\ SizesOnTheirWay'
  <2>1. /\ job[w].at = "record" /\ lock = NoOne
        /\ job' = [job EXCEPT ![w] = [NoJob EXCEPT !.at = IF w = "stop" THEN "out" ELSE @]]
        /\ apart' = (apart \/ w \in Resizers)
        /\ UNCHANGED <<lock, copy>>
    BY <1>b DEF Reads, MayRead
  <2>2. PICK done \in [at : {"idle", "out"}, value : Nat] :
           job' = [job EXCEPT ![w] = done] /\ (w # "stop" => done.at = "idle")
    BY <2>1, JobDone
  <2>3. TypeOK'
    <3>1. /\ job' \in [Writers -> [at : {"idle", "applied", "record", "publish", "sync", "out"},
                                   value : Nat]]
          /\ \A v \in Writers : job'[v].at \in {"publish", "sync"} <=> lock' = v
      BY <2>1, <2>2 DEF TypeOK
    <3>2. apart' \in BOOLEAN
      BY <2>1
    <3> QED BY <2>1, <3>1, <3>2 DEF TypeOK, Reads, sessionVars, boundVars
  <2>4. SizesOnTheirWay'
    <3>1. CASE w \in Resizers
      BY <2>1, <3>1 DEF SizesOnTheirWay
    <3>2. CASE w \notin Resizers
      <4>1. Resizing' = Resizing /\ \A r \in Resizers : job'[r] = job[r]
        BY <2>2, <3>2 DEF Resizing, TypeOK, Writers
      <4>2. job'["create"] = job["create"] /\ copy' = copy /\ apart' = apart
        BY <1>b, <2>1, <2>2, <3>2 DEF TypeOK
      <4> QED BY <4>1, <4>2 DEF SizesOnTheirWay, Resizing, Reads, sessionVars
    <3> QED BY <3>1, <3>2
  <2> QED BY <2>3, <2>4
<1>1. TypeOK'
  BY <1>a, <1>b
<1>2. CopyIsTheRecord'
  BY DEF TypeOK, CopyIsTheRecord, Reads, MayRead, NoJob, recordVars, sessionVars, boundVars,
         histVars
<1>3. WritersKeepTheirPlace'
  BY DEF TypeOK, WritersKeepTheirPlace, Reads, MayRead, NoJob, recordVars, sessionVars,
         boundVars, histVars
<1>4. (record = last)'
  BY DEF TypeOK, CopyIsTheRecord, Reads, MayRead, NoJob, recordVars, sessionVars, boundVars,
         histVars
<1>5. StopComesLast'
  BY DEF TypeOK, StopComesLast, CopyIsTheRecord, WritersKeepTheirPlace, Reads, MayRead, NoJob,
         recordVars, sessionVars, boundVars, histVars
<1>6. StopMarkIsDurable'
  BY DEF TypeOK, StopMarkIsDurable, StopComesLast, CopyIsTheRecord, WritersKeepTheirPlace,
         Reads, MayRead, NoJob, recordVars, sessionVars, boundVars, histVars
<1>7. SizesOnTheirWay'
  BY <1>a, <1>b
<1> QED BY <1>1, <1>2, <1>3, <1>4, <1>5, <1>6, <1>7

\* A publish keeps the invariant.
LEMMA PublishesKeeps ==
    ASSUME RecordInv, NEW w \in Writers, Publishes(w)
    PROVE  RecordInv'
<1> USE WriterNames, NoRecordFacts, RecordConstants DEF RecordInv
<1> DEFINE new == Updated(w, copy[w])
<1>a. /\ new \in Records
      /\ new.on = IF w = "create" THEN TRUE ELSE copy[w].on
      /\ w \notin {"stop", "clear"} => new.ended = copy[w].ended
      /\ w = "stop" => new.ended = TRUE
      /\ new.size = IF w \in Resizers THEN job[w].value ELSE copy[w].size
  BY UpdatedFacts DEF TypeOK
<1>b. /\ job[w].at = "publish" /\ lock = w /\ record' = new /\ since' = since \cup {new}
      /\ w # "create" => copy[w] = record /\ record.on
      /\ UNCHANGED <<terminal, session, running, boundVars, made, apart, cut>>
  BY DEF Publishes, TypeOK, CopyIsTheRecord
<1>c. last' = new
  <2>1. CASE w = "create"
    BY <2>1 DEF Publishes
  <2>2. CASE w # "create"
    <3>1. last' = [f \in DOMAIN last |-> IF new[f] # copy[w][f] THEN new[f] ELSE last[f]]
      BY <2>2 DEF Publishes
    <3>2. copy[w] = last /\ last \in Records
      BY <1>b, <2>2 DEF TypeOK
    <3> QED BY <1>a, <3>1, <3>2, WriteIsRemembered
  <2> QED BY <2>1, <2>2
<1>d. IF w = "stop"
      THEN job' = [job EXCEPT ![w].at = "sync"] /\ UNCHANGED <<lock, copy, life>>
      ELSE /\ lock' = NoOne /\ copy' = [copy EXCEPT ![w] = NoRecord]
           /\ job' = [job EXCEPT ![w] = [at |-> "idle", value |-> 0]]
           /\ life' = IF w \in {"create", "clear"} /\ life = "opening" THEN "up" ELSE life
  BY DEF Publishes, IsDurable, Releases, NoJob
<1>e. marked' = marked /\ ran' \in BOOLEAN
  BY DEF Publishes, IsDurable, TypeOK
<1> HIDE DEF new
<1>1. TypeOK'
  <2>1. /\ job' \in [Writers -> [at : {"idle", "applied", "record", "publish", "sync", "out"},
                                 value : Nat]]
        /\ copy' \in [Writers -> Records]
        /\ lock' \in Writers \cup {NoOne}
        /\ life' \in {"opening", "up", "ended", "down"}
        /\ \A v \in Writers : job'[v].at \in {"publish", "sync"} <=> lock' = v
    <3>1. CASE w = "stop"
      BY <1>b, <1>d, <3>1 DEF TypeOK
    <3>2. CASE w # "stop"
      <4>1. /\ lock' = NoOne /\ copy' = [copy EXCEPT ![w] = NoRecord]
            /\ job' = [job EXCEPT ![w] = [at |-> "idle", value |-> 0]]
            /\ life' = IF w \in {"create", "clear"} /\ life = "opening" THEN "up" ELSE life
        BY <1>d, <3>2
      <4>2. job' \in [Writers -> [at : {"idle", "applied", "record", "publish", "sync", "out"},
                                  value : Nat]]
        BY <4>1 DEF TypeOK
      <4>3. copy' \in [Writers -> Records]
        BY <4>1, NoRecordFacts DEF TypeOK
      <4>4. \A v \in Writers : job'[v].at \in {"publish", "sync"} <=> lock' = v
        BY <1>b, <4>1, WriterNames DEF TypeOK
      <4> QED BY <4>1, <4>2, <4>3, <4>4 DEF TypeOK
    <3> QED BY <3>1, <3>2
  <2> QED BY <1>a, <1>b, <1>c, <1>e, <2>1 DEF TypeOK, boundVars
<1>2. CopyIsTheRecord'
  BY <1>b, <1>d DEF CopyIsTheRecord, TypeOK
<1>3. WritersKeepTheirPlace'
  BY <1>a, <1>b, <1>d DEF WritersKeepTheirPlace, TypeOK, boundVars
<1>4. (record = last)'
  BY <1>b, <1>c
<1>5. StopComesLast'
  BY <1>a, <1>b, <1>d, <1>e DEF StopComesLast, WritersKeepTheirPlace, TypeOK
<1>6. StopMarkIsDurable'
  <2>1. ASSUME marked PROVE w \notin {"create", "stop", "clear"}
    BY <1>b, <2>1 DEF StopComesLast, WritersKeepTheirPlace
  <2>2. ASSUME marked PROVE new.on => new.ended
    BY <1>a, <1>b, <2>1, <2>2 DEF StopMarkIsDurable, TypeOK
  <2> QED BY <1>b, <1>e, <2>2 DEF StopMarkIsDurable
<1>7. SizesOnTheirWay'
  <2> SUFFICES ASSUME life' # "down", ~apart' PROVE
        /\ \A q, r \in Resizing' : q = r
        /\ \A r \in Resizing' : /\ terminal' = job'[r].value
                                /\ job'[r].at # "applied" => session'.size = job'[r].value
        /\ Resizing' = {} => /\ terminal' = session'.size
                             /\ record'.on => record'.size = session'.size
                             /\ job'["create"].at # "idle" =>
                                    copy'["create"].size = session'.size
    BY DEF SizesOnTheirWay
  <2>1. life # "down" /\ ~apart
    BY <1>b DEF WritersKeepTheirPlace
  <2>2. CASE w \in Resizers
    <3>1. /\ Resizing = {w} /\ Resizing' = {} /\ terminal = job[w].value
          /\ session.size = job[w].value
      BY <1>b, <1>d, <2>1, <2>2 DEF SizesOnTheirWay, Resizing, TypeOK, Writers
    <3>2. job'["create"].at = "idle"
      BY <1>3, <1>b, <1>d, <2>2 DEF WritersKeepTheirPlace, TypeOK
    <3> QED BY <1>a, <1>b, <2>2, <3>1, <3>2
  <2>3. CASE w \notin Resizers
    <3>1. Resizing' = Resizing /\ \A r \in Resizers : job'[r] = job[r]
      BY <1>d, <2>3 DEF Resizing, TypeOK, Writers
    <3>2. Resizing = {} => record'.size = session.size
      BY <1>a, <1>b, <2>1, <2>3 DEF SizesOnTheirWay
    <3>3. job'["create"].at # "idle" => w # "create" /\ job["create"].at # "idle"
                                          /\ copy'["create"] = copy["create"]
      BY <1>b, <1>d DEF TypeOK
    <3> QED BY <1>b, <2>1, <3>1, <3>2, <3>3 DEF SizesOnTheirWay, Resizing
  <2> QED BY <2>2, <2>3
<1> QED BY <1>1, <1>2, <1>3, <1>4, <1>5, <1>6, <1>7

\* The sync of the stop keeps the invariant.
LEMMA SyncsKeeps ==
    ASSUME RecordInv, NEW w \in Writers, Syncs(w)
    PROVE  RecordInv'
<1> USE WriterNames, NoRecordFacts, RecordConstants DEF RecordInv, Syncs, Releases, NoJob,
           recordVars, sessionVars, boundVars, histVars
<1>1. TypeOK'
  BY DEF TypeOK
<1>2. CopyIsTheRecord'
  BY DEF TypeOK, CopyIsTheRecord
<1>3. WritersKeepTheirPlace'
  BY DEF TypeOK, WritersKeepTheirPlace
<1>4. (record = last)'
  BY DEF TypeOK, CopyIsTheRecord
<1>5. StopComesLast'
  BY DEF TypeOK, StopComesLast, CopyIsTheRecord, WritersKeepTheirPlace
<1>6. StopMarkIsDurable'
  BY DEF TypeOK, StopMarkIsDurable, StopComesLast, CopyIsTheRecord, WritersKeepTheirPlace
<1>7. SizesOnTheirWay'
  BY DEF TypeOK, SizesOnTheirWay, Resizing, CopyIsTheRecord, WritersKeepTheirPlace, Writers
<1> QED BY <1>1, <1>2, <1>3, <1>4, <1>5, <1>6, <1>7

\* A failing call keeps the invariant.
LEMMA PublishFailsKeeps ==
    ASSUME RecordInv, NEW w \in Writers, PublishFails(w)
    PROVE  RecordInv'
<1> USE WriterNames, NoRecordFacts, RecordConstants DEF RecordInv
<1>1. TypeOK'
  BY DEF TypeOK, PublishFails, Releases, NoJob, Happens, recordVars, sessionVars, boundVars,
         histVars
<1>2. CopyIsTheRecord'
  BY DEF TypeOK, CopyIsTheRecord, PublishFails, Releases, NoJob, Happens, recordVars,
         sessionVars, boundVars, histVars
<1>3. WritersKeepTheirPlace'
  BY DEF TypeOK, WritersKeepTheirPlace, PublishFails, Releases, NoJob, Happens, recordVars,
         sessionVars, boundVars, histVars
<1>4. (record = last)'
  BY DEF TypeOK, CopyIsTheRecord, PublishFails, Releases, NoJob, Happens, recordVars,
         sessionVars, boundVars, histVars
<1>5. StopComesLast'
  BY DEF TypeOK, StopComesLast, CopyIsTheRecord, WritersKeepTheirPlace, PublishFails, Releases,
         NoJob, Happens, recordVars, sessionVars, boundVars, histVars
<1>6. StopMarkIsDurable'
  BY DEF TypeOK, StopMarkIsDurable, StopComesLast, CopyIsTheRecord, WritersKeepTheirPlace,
         PublishFails, Releases, NoJob, Happens, recordVars, sessionVars, boundVars, histVars
<1>7. SizesOnTheirWay'
  <2>1. CASE w \in Resizers
    BY <2>1 DEF PublishFails, SizesOnTheirWay
  <2>2. CASE w \notin Resizers
    <3>1. Resizing' = Resizing /\ \A r \in Resizers : job'[r] = job[r]
      BY <2>2 DEF PublishFails, Releases, Resizing, TypeOK, Writers
    <3>2. /\ apart' = apart /\ UNCHANGED <<record, terminal, session>>
          /\ life' # "down" <=> life # "down"
      BY <2>2 DEF PublishFails, Releases, TypeOK
    <3>3. job'["create"].at # "idle" => job["create"].at # "idle"
                                          /\ copy'["create"] = copy["create"]
      BY DEF PublishFails, Releases, NoJob, TypeOK
    <3> QED BY <3>1, <3>2, <3>3 DEF SizesOnTheirWay, Resizing
  <2> QED BY <2>1, <2>2
<1> QED BY <1>1, <1>2, <1>3, <1>4, <1>5, <1>6, <1>7

\* The open reading what it will write keeps the invariant.
LEMMA CreateBeginsKeeps ==
    ASSUME RecordInv, CreateBegins
    PROVE  RecordInv'
<1> USE WriterNames, NoRecordFacts, RecordConstants DEF RecordInv, CreateBegins,
           recordVars, sessionVars, boundVars, histVars
<1>1. TypeOK'
  <2>1. PICK size \in IF Resizing = {} THEN {session.size} ELSE Sizes :
           copy' = [copy EXCEPT !["create"] =
                      [NoRecord EXCEPT !.command = Command(made.shell), !.size = size,
                                       !.started = session.started]]
    BY DEF CreateBegins
  <2>2. size \in Nat /\ session.started \in Nat /\ made.shell \in ShellPaths
    BY DEF TypeOK
  <2>3. [NoRecord EXCEPT !.command = Command(made.shell), !.size = size,
                         !.started = session.started] \in Records
    BY <2>2 DEF Records, NoRecord
  <2>4. copy' \in [Writers -> Records]
    BY <2>1, <2>3 DEF TypeOK
  <2>5. /\ job' \in [Writers -> [at : {"idle", "applied", "record", "publish", "sync", "out"},
                                 value : Nat]]
        /\ \A v \in Writers : job'[v].at \in {"publish", "sync"} <=> lock' = v
    BY DEF CreateBegins, TypeOK
  <2> QED BY <2>4, <2>5 DEF CreateBegins, TypeOK, sessionVars, boundVars, histVars
<1>2. CopyIsTheRecord'
  BY DEF TypeOK, CopyIsTheRecord
<1>3. WritersKeepTheirPlace'
  BY DEF TypeOK, WritersKeepTheirPlace
<1>4. (record = last)'
  BY DEF TypeOK, CopyIsTheRecord
<1>5. StopComesLast'
  BY DEF TypeOK, StopComesLast, CopyIsTheRecord, WritersKeepTheirPlace
<1>6. StopMarkIsDurable'
  BY DEF TypeOK, StopMarkIsDurable, StopComesLast, CopyIsTheRecord, WritersKeepTheirPlace
<1>7. SizesOnTheirWay'
  BY DEF TypeOK, SizesOnTheirWay, Resizing, CopyIsTheRecord, WritersKeepTheirPlace, Writers
<1> QED BY <1>1, <1>2, <1>3, <1>4, <1>5, <1>6, <1>7

\* A resize telling the session keeps the invariant.
LEMMA ResizeTellsKeeps ==
    ASSUME RecordInv, NEW r \in Resizers, ResizeTells(r)
    PROVE  RecordInv'
<1> USE WriterNames, NoRecordFacts, RecordConstants DEF RecordInv, ResizeTells, SizeTaken,
           recordVars, sessionVars, boundVars, histVars
<1>1. TypeOK'
  <2>0. r \in Writers
    BY DEF Writers
  <2>1. session' \in [size : Nat, started : Nat]
    BY <2>0 DEF ResizeTells, SizeTaken, TypeOK
  <2>2. /\ job' \in [Writers -> [at : {"idle", "applied", "record", "publish", "sync", "out"},
                                 value : Nat]]
        /\ \A v \in Writers : job'[v].at \in {"publish", "sync"} <=> lock' = v
    BY <2>0 DEF ResizeTells, TypeOK, recordVars
  <2> QED BY <2>1, <2>2 DEF ResizeTells, TypeOK, recordVars, boundVars, histVars
<1>2. CopyIsTheRecord'
  BY DEF TypeOK, CopyIsTheRecord
<1>3. WritersKeepTheirPlace'
  BY DEF TypeOK, WritersKeepTheirPlace
<1>4. (record = last)'
  BY DEF TypeOK, CopyIsTheRecord
<1>5. StopComesLast'
  BY DEF TypeOK, StopComesLast, CopyIsTheRecord, WritersKeepTheirPlace
<1>6. StopMarkIsDurable'
  BY DEF TypeOK, StopMarkIsDurable, StopComesLast, CopyIsTheRecord, WritersKeepTheirPlace
<1>7. SizesOnTheirWay'
  BY DEF TypeOK, SizesOnTheirWay, Resizing, CopyIsTheRecord, WritersKeepTheirPlace, Writers
<1> QED BY <1>1, <1>2, <1>3, <1>4, <1>5, <1>6, <1>7

\* A resize setting the terminal keeps the invariant.
LEMMA ResizeAppliesKeeps ==
    ASSUME RecordInv, NEW r \in Resizers, NEW size \in Sizes, ResizeApplies(r, size)
    PROVE  RecordInv'
<1> USE WriterNames, NoRecordFacts, RecordConstants DEF RecordInv, ResizeApplies, Asks, Reachable,
           recordVars, sessionVars, boundVars, histVars
<1>1. TypeOK'
  <2>0. r \in Writers /\ size \in Nat
    BY DEF Writers
  <2>1. writes' \in 0..MaxWrites
    BY DEF ResizeApplies, Asks, TypeOK
  <2>2. /\ job' \in [Writers -> [at : {"idle", "applied", "record", "publish", "sync", "out"},
                                 value : Nat]]
        /\ \A v \in Writers : job'[v].at \in {"publish", "sync"} <=> lock' = v
    BY <2>0 DEF ResizeApplies, TypeOK, recordVars
  <2>3. terminal' \in Nat /\ apart' \in BOOLEAN
    BY <2>0 DEF ResizeApplies
  <2> QED BY <2>1, <2>2, <2>3 DEF ResizeApplies, TypeOK, recordVars
<1>2. CopyIsTheRecord'
  BY DEF TypeOK, CopyIsTheRecord
<1>3. WritersKeepTheirPlace'
  BY DEF TypeOK, WritersKeepTheirPlace
<1>4. (record = last)'
  BY DEF TypeOK, CopyIsTheRecord
<1>5. StopComesLast'
  BY DEF TypeOK, StopComesLast, CopyIsTheRecord, WritersKeepTheirPlace
<1>6. StopMarkIsDurable'
  BY DEF TypeOK, StopMarkIsDurable, StopComesLast, CopyIsTheRecord, WritersKeepTheirPlace
<1>7. SizesOnTheirWay'
  BY DEF TypeOK, SizesOnTheirWay, Resizing, CopyIsTheRecord, WritersKeepTheirPlace, Writers
<1> QED BY <1>1, <1>2, <1>3, <1>4, <1>5, <1>6, <1>7

\* A report of modes or of the program in front keeps the invariant.
LEMMA ChangesKeeps ==
    ASSUME RecordInv, NEW w \in {"modes", "front"}, NEW value \in Values, Changes(w, value)
    PROVE  RecordInv'
<1> USE WriterNames, NoRecordFacts, RecordConstants DEF RecordInv, Changes, Asks, Reachable,
           recordVars, sessionVars, boundVars, histVars
<1>1. TypeOK'
  BY DEF TypeOK
<1>2. CopyIsTheRecord'
  BY DEF TypeOK, CopyIsTheRecord
<1>3. WritersKeepTheirPlace'
  BY DEF TypeOK, WritersKeepTheirPlace
<1>4. (record = last)'
  BY DEF TypeOK, CopyIsTheRecord
<1>5. StopComesLast'
  BY DEF TypeOK, StopComesLast, CopyIsTheRecord, WritersKeepTheirPlace
<1>6. StopMarkIsDurable'
  BY DEF TypeOK, StopMarkIsDurable, StopComesLast, CopyIsTheRecord, WritersKeepTheirPlace
<1>7. SizesOnTheirWay'
  BY DEF TypeOK, SizesOnTheirWay, Resizing, CopyIsTheRecord, WritersKeepTheirPlace, Writers
<1> QED BY <1>1, <1>2, <1>3, <1>4, <1>5, <1>6, <1>7

\* The stop taking the session out keeps the invariant.
LEMMA StopBeginsKeeps ==
    ASSUME RecordInv, StopBegins
    PROVE  RecordInv'
<1> USE WriterNames, NoRecordFacts, RecordConstants DEF RecordInv, StopBegins, Reachable,
           recordVars, sessionVars, boundVars, histVars
<1>1. TypeOK'
  BY DEF TypeOK
<1>2. CopyIsTheRecord'
  BY DEF TypeOK, CopyIsTheRecord
<1>3. WritersKeepTheirPlace'
  BY DEF TypeOK, WritersKeepTheirPlace
<1>4. (record = last)'
  BY DEF TypeOK, CopyIsTheRecord
<1>5. StopComesLast'
  BY DEF TypeOK, StopComesLast, CopyIsTheRecord, WritersKeepTheirPlace
<1>6. StopMarkIsDurable'
  BY DEF TypeOK, StopMarkIsDurable, StopComesLast, CopyIsTheRecord, WritersKeepTheirPlace
<1>7. SizesOnTheirWay'
  BY DEF TypeOK, SizesOnTheirWay, Resizing, CopyIsTheRecord, WritersKeepTheirPlace, Writers
<1> QED BY <1>1, <1>2, <1>3, <1>4, <1>5, <1>6, <1>7

\* A close keeps the invariant.
LEMMA RemovesKeeps ==
    ASSUME RecordInv, Removes
    PROVE  RecordInv'
<1> USE WriterNames, NoRecordFacts, RecordConstants DEF RecordInv, Removes, MayRemove, Reachable,
           recordVars, sessionVars, boundVars, histVars
<1>1. TypeOK'
  BY DEF TypeOK
<1>2. CopyIsTheRecord'
  BY DEF TypeOK, CopyIsTheRecord
<1>3. WritersKeepTheirPlace'
  BY DEF TypeOK, WritersKeepTheirPlace
<1>4. (record = last)'
  BY DEF TypeOK, CopyIsTheRecord
<1>5. StopComesLast'
  BY DEF TypeOK, StopComesLast, CopyIsTheRecord, WritersKeepTheirPlace
<1>6. StopMarkIsDurable'
  BY DEF TypeOK, StopMarkIsDurable, StopComesLast, CopyIsTheRecord, WritersKeepTheirPlace
<1>7. SizesOnTheirWay'
  BY DEF TypeOK, SizesOnTheirWay, Resizing, CopyIsTheRecord, WritersKeepTheirPlace, Writers
<1> QED BY <1>1, <1>2, <1>3, <1>4, <1>5, <1>6, <1>7

\* The daemon's exit keeps the invariant.
LEMMA StopExitsKeeps ==
    ASSUME RecordInv, StopExits
    PROVE  RecordInv'
<1> USE WriterNames, NoRecordFacts, RecordConstants DEF RecordInv, StopExits, ProcessGoes, NoJob,
           recordVars, sessionVars, boundVars, histVars
<1>1. TypeOK'
  BY DEF TypeOK
<1>2. CopyIsTheRecord'
  BY DEF TypeOK, CopyIsTheRecord
<1>3. WritersKeepTheirPlace'
  BY DEF TypeOK, WritersKeepTheirPlace
<1>4. (record = last)'
  BY DEF TypeOK, CopyIsTheRecord
<1>5. StopComesLast'
  BY DEF TypeOK, StopComesLast, CopyIsTheRecord, WritersKeepTheirPlace
<1>6. StopMarkIsDurable'
  BY DEF TypeOK, StopMarkIsDurable, StopComesLast, CopyIsTheRecord, WritersKeepTheirPlace
<1>7. SizesOnTheirWay'
  BY DEF TypeOK, SizesOnTheirWay, Resizing, CopyIsTheRecord, WritersKeepTheirPlace, Writers
<1> QED BY <1>1, <1>2, <1>3, <1>4, <1>5, <1>6, <1>7

\* A crash keeps the invariant.
LEMMA CrashKeeps ==
    ASSUME RecordInv, Crash
    PROVE  RecordInv'
<1> USE WriterNames, NoRecordFacts, RecordConstants DEF RecordInv, Crash, ProcessGoes, NoJob,
           Happens, recordVars, sessionVars, boundVars, histVars
<1>1. TypeOK'
  BY DEF TypeOK
<1>2. CopyIsTheRecord'
  BY DEF TypeOK, CopyIsTheRecord
<1>3. WritersKeepTheirPlace'
  BY DEF TypeOK, WritersKeepTheirPlace
<1>4. (record = last)'
  BY DEF TypeOK, CopyIsTheRecord
<1>5. StopComesLast'
  BY DEF TypeOK, StopComesLast, CopyIsTheRecord, WritersKeepTheirPlace
<1>6. StopMarkIsDurable'
  BY DEF TypeOK, StopMarkIsDurable, StopComesLast, CopyIsTheRecord, WritersKeepTheirPlace
<1>7. SizesOnTheirWay'
  BY DEF TypeOK, SizesOnTheirWay, Resizing, CopyIsTheRecord, WritersKeepTheirPlace, Writers
<1> QED BY <1>1, <1>2, <1>3, <1>4, <1>5, <1>6, <1>7

\* A power cut keeps the invariant.
LEMMA PowerCutKeeps ==
    ASSUME RecordInv, PowerCut
    PROVE  RecordInv'
<1> USE WriterNames, NoRecordFacts, RecordConstants DEF RecordInv, PowerCut, ProcessGoes, NoJob,
           Happens, recordVars, sessionVars, boundVars, histVars
<1>1. TypeOK'
  BY DEF TypeOK
<1>2. CopyIsTheRecord'
  BY DEF TypeOK, CopyIsTheRecord
<1>3. WritersKeepTheirPlace'
  BY DEF TypeOK, WritersKeepTheirPlace
<1>4. (record = last)'
  BY DEF TypeOK, CopyIsTheRecord
<1>5. StopComesLast'
  BY DEF TypeOK, StopComesLast, CopyIsTheRecord, WritersKeepTheirPlace
<1>6. StopMarkIsDurable'
  BY DEF TypeOK, StopMarkIsDurable, StopComesLast, CopyIsTheRecord, WritersKeepTheirPlace
<1>7. SizesOnTheirWay'
  BY DEF TypeOK, SizesOnTheirWay, Resizing, CopyIsTheRecord, WritersKeepTheirPlace, Writers
<1> QED BY <1>1, <1>2, <1>3, <1>4, <1>5, <1>6, <1>7

\* A restore keeps the invariant.
LEMMA RestoresKeeps ==
    ASSUME RecordInv, Restores
    PROVE  RecordInv'
<1> USE WriterNames, NoRecordFacts, RecordConstants DEF RecordInv, Restores,
           recordVars, sessionVars, boundVars, histVars
<1>1. TypeOK'
  <2>1. record.size \in Nat
    BY DEF TypeOK, Records
  <2>2. starts' \in 0..MaxStarts /\ starts + 1 \in Nat
    BY DEF Restores, TypeOK
  <2>3. terminal' \in Nat /\ session' \in [size : Nat, started : Nat]
    BY <2>1, <2>2 DEF Restores
  <2>4. /\ job' \in [Writers -> [at : {"idle", "applied", "record", "publish", "sync", "out"},
                                 value : Nat]]
        /\ \A v \in Writers : job'[v].at \in {"publish", "sync"} <=> lock' = v
    BY DEF Restores, TypeOK, recordVars, WritersKeepTheirPlace
  <2> QED BY <2>2, <2>3, <2>4 DEF Restores, TypeOK, recordVars
<1>2. CopyIsTheRecord'
  BY DEF TypeOK, CopyIsTheRecord
<1>3. WritersKeepTheirPlace'
  BY DEF TypeOK, WritersKeepTheirPlace
<1>4. (record = last)'
  BY DEF TypeOK, CopyIsTheRecord
<1>5. StopComesLast'
  BY DEF TypeOK, StopComesLast, CopyIsTheRecord, WritersKeepTheirPlace
<1>6. StopMarkIsDurable'
  BY DEF TypeOK, StopMarkIsDurable, StopComesLast, CopyIsTheRecord, WritersKeepTheirPlace
<1>7. SizesOnTheirWay'
  BY DEF TypeOK, SizesOnTheirWay, Resizing, CopyIsTheRecord, WritersKeepTheirPlace, Writers
<1> QED BY <1>1, <1>2, <1>3, <1>4, <1>5, <1>6, <1>7

\* The steps together, and a step that changes nothing.
LEMMA StepPreservesRecordInv == RecordInv /\ [Next]_vars => RecordInv'
<1> SUFFICES ASSUME RecordInv, [Next]_vars PROVE RecordInv'
  OBVIOUS
<1>1. CASE UNCHANGED vars
  BY <1>1 DEF RecordInv, TypeOK, CopyIsTheRecord, WritersKeepTheirPlace, StopComesLast,
              StopMarkIsDurable, SizesOnTheirWay, Resizing, vars, recordVars, sessionVars,
              boundVars, histVars
<1>2. CASE Next
  BY <1>2, ReadsKeeps, PublishesKeeps, SyncsKeeps, PublishFailsKeeps, CreateBeginsKeeps,
     ResizeTellsKeeps, ResizeAppliesKeeps, ChangesKeeps, StopBeginsKeeps, RemovesKeeps,
     StopExitsKeeps, CrashKeeps, PowerCutKeeps, RestoresKeeps DEF Next
<1> QED BY <1>1, <1>2

----------------------------------------------------------------------------
(* The theorems *)

\* The inductive invariant holds in every reachable state.
THEOREM RecordInvariance == Safety => []RecordInv
BY InitEstablishesRecordInv, StepPreservesRecordInv, PTL DEF Safety

\* Every variable keeps its type, and the record's lock is held by exactly the writer
\* between its read and the end of its write (store.go 258-330).
THEOREM RecordTypeCorrect == Safety => []TypeOK
<1>1. RecordInv => TypeOK
  BY DEF RecordInv
<1> QED BY <1>1, RecordInvariance, PTL

\* No writer of a record undoes another's field or brings a removed record back,
\* however many writers there are and wherever calls fail or the power goes.
THEOREM NoUpdateIsLost == Safety => []NoLostUpdate
<1>1. RecordInv => NoLostUpdate
  BY DEF RecordInv, NoLostUpdate
<1> QED BY <1>1, RecordInvariance, PTL

\* Once the stop has marked a record no power cut brings back a version without the
\* mark, whatever was published after it (writeDurable, store.go 164).
THEOREM TheStopIsDurable == Safety => []StopMarkIsDurable
<1>1. RecordInv => StopMarkIsDurable
  BY DEF RecordInv
<1> QED BY <1>1, RecordInvariance, PTL

\* Terminal, session and record agree when no resize is under way, for any number of
\* resizers, unless the last resizes overlapped or one was not recorded.
THEOREM SizesComeToAgree == Safety => []SizesAgreeAtRest
<1>1. RecordInv => SizesAgreeAtRest
  BY DEF RecordInv, SizesOnTheirWay, SizesAgreeAtRest
<1> QED BY <1>1, RecordInvariance, PTL
=============================================================================
