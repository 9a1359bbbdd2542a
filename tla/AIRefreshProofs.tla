-------------------------- MODULE AIRefreshProofs --------------------------
(***************************************************************************)
(* AIRefresh implements ResultStore, and its status is honest, for every   *)
(* set of saved results, any number of methods and versions, and whatever  *)
(* is repeated, fails or lands late.                                       *)
(*                                                                         *)
(* A result only moves forward, in its version or, within one, in its      *)
(* method.  So a content that was read, and is no longer there, does not   *)
(* come back, and a replacement conditional on it finds either what was    *)
(* read, of which a copy was kept, or something else.                      *)
(***************************************************************************)
EXTENDS Server, TLAPS

Carrying == {"get", "analyze", "backup", "put"}    \* the worker holds a content

Below(c, d) == c.version < d.version \/ (c.version = d.version /\ c.method <= d.method)
Behind(k, c) == obj[k] = Absent \/ Below(c, obj[k])
Backed(k, c) == obj[k] = c => c \in backups[k]

StoreTyped ==
    /\ obj \in [Keys -> Content \cup {Absent}]
    /\ backups \in [Keys -> SUBSET Content]
    /\ method \in 1 .. MaxMethod
    /\ \A k \in Keys : obj[k].method <= method

\* What the worker holds, and what it has established of it so far.
Held ==
    /\ pc \in Carrying => /\ key \in Keys /\ body \in Content
                          /\ body.method <= method /\ Behind(key, body)
    /\ pc \in {"backup", "put"} => body.method < method
    /\ pc = "put" => Backed(key, body)

\* The same of every write that may still land.
Awaited ==
    \A w \in late :
        /\ w \in Write
        /\ w.old.method < w.method /\ w.method <= method
        /\ Behind(w.key, w.old)
        /\ w.to = "result" => Backed(w.key, w.old)

IInv == StoreTyped /\ Held /\ Awaited

(***************************************************************************)
(* What may happen to the bucket.                                          *)
(***************************************************************************)
\* What was read stays behind what is there, and the copy of it is there as long
\* as it is.
Forward ==
    \A k \in Keys, c \in Content : Behind(k, c) =>
        /\ Behind(k, c)'
        /\ Backed(k, c) => Backed(k, c)'

LEMMA ContentIsPresent == Absent \notin Content
  BY DEF Absent, Content, Kinds

LEMMA ContentTyped ==
  ASSUME NEW c \in Content
  PROVE  /\ c.version \in 0 .. MaxVersion /\ c.method \in 0 .. MaxMethod
         /\ c.version \in Int /\ c.method \in Int
  BY ResultStoreAssumption DEF Content

LEMMA RewrittenTyped ==
  ASSUME NEW c \in Content, c.version < MaxVersion, NEW kind \in Kinds
  PROVE  /\ Rewritten(c, kind) \in Content
         /\ Rewritten(c, kind).version = c.version + 1
         /\ Rewritten(c, kind).method = c.method
<1>1. c.version + 1 \in 0 .. MaxVersion
  BY ResultStoreAssumption DEF Content
<1>2. c.method \in 0 .. MaxMethod
  BY DEF Content
<1> QED BY <1>1, <1>2 DEF Content, Rewritten

\* The application's own writes.
LEMMA AppForward ==
  ASSUME StoreTyped, NEW k \in Keys, AppUpdates(k) \/ AppDeletes(k), method' = method
  PROVE  StoreTyped' /\ Forward
<1>1. CASE AppUpdates(k)
  <2>1. PICK kind \in Kinds : obj' = [obj EXCEPT ![k] = Rewritten(@, kind)]
    BY <1>1 DEF AppUpdates
  <2>2. obj[k] \in Content /\ obj[k].version < MaxVersion
    BY <1>1 DEF AppUpdates, StoreTyped
  <2> DEFINE new == Rewritten(obj[k], kind)
  <2>3. obj' = [obj EXCEPT ![k] = new]
    BY <2>1
  <2>4. new \in Content /\ new.version = obj[k].version + 1 /\ new.method = obj[k].method
    BY <2>2, RewrittenTyped
  <2> HIDE DEF new
  <2>a. obj'[k] = new
    BY <2>3 DEF StoreTyped
  <2>5. \A q \in Keys \ {k} : obj'[q] = obj[q]
    BY <2>3 DEF StoreTyped
  <2>6. backups' = backups
    BY <1>1 DEF AppUpdates
  <2>7. obj' \in [Keys -> Content \cup {Absent}]
    BY <2>3, <2>4 DEF StoreTyped
  <2>8. StoreTyped'
    BY <2>a, <2>4, <2>5, <2>6, <2>7 DEF StoreTyped
  <2>9. ASSUME NEW c \in Content, Behind(k, c)
        PROVE  Behind(k, c)' /\ Backed(k, c)'
    <3>1. Below(c, obj[k])
      BY <2>9, <2>2, ContentIsPresent DEF Behind
    <3>2. c.version < obj'[k].version
      BY <3>1, <2>2, <2>a, <2>4, ContentTyped DEF Below
    <3>3. obj'[k] # c
      BY <3>2, ContentTyped
    <3> QED BY <3>2, <3>3 DEF Behind, Below, Backed
  <2>10. ASSUME NEW q \in Keys \ {k}, NEW c \in Content, Behind(q, c)
         PROVE  Behind(q, c)' /\ (Backed(q, c) => Backed(q, c)')
    BY <2>10, <2>5, <2>6 DEF Behind, Below, Backed
  <2> QED BY <2>8, <2>9, <2>10 DEF Forward
<1>2. CASE AppDeletes(k)
  <2>1. obj'[k] = Absent /\ \A q \in Keys \ {k} : obj'[q] = obj[q] /\ backups'[q] = backups[q]
    BY <1>2 DEF AppDeletes, StoreTyped
  <2>2. obj' \in [Keys -> Content \cup {Absent}] /\ backups' \in [Keys -> SUBSET Content]
    BY <1>2 DEF AppDeletes, StoreTyped
  <2>3. Absent.method = 0
    BY DEF Absent
  <2>4. StoreTyped'
    BY <2>1, <2>2, <2>3 DEF StoreTyped
  <2>5. \A c \in Content : Behind(k, c)' /\ Backed(k, c)'
    BY <2>1, ContentIsPresent DEF Behind, Backed
  <2>6. ASSUME NEW q \in Keys \ {k}, NEW c \in Content, Behind(q, c)
        PROVE  Behind(q, c)' /\ (Backed(q, c) => Backed(q, c)')
    BY <2>6, <2>1 DEF Behind, Below, Backed
  <2> QED BY <2>4, <2>5, <2>6 DEF Forward
<1> QED BY <1>1, <1>2

\* A backup that lands.
LEMMA BackupForward ==
  ASSUME StoreTyped, NEW k \in Keys, NEW c \in Content, LandBackup(k, c), method' = method
  PROVE  StoreTyped' /\ Forward /\ Keep(k) /\ Backed(k, c)'
<1>1. obj' = obj /\ backups' = [backups EXCEPT ![k] = @ \cup {c}]
  BY DEF LandBackup
<1>2. \A q \in Keys : backups[q] \subseteq backups'[q]
  BY <1>1 DEF StoreTyped
<1>3. c \in backups'[k]
  BY <1>1 DEF StoreTyped
<1>4. StoreTyped'
  BY <1>1 DEF StoreTyped
<1>5. Forward
  BY <1>1, <1>2 DEF Forward, Behind, Below, Backed
<1> QED BY <1>1, <1>3, <1>4, <1>5 DEF Keep, Backed

\* A replacement that lands, on what it is conditional on or not.
LEMMA ResultForward ==
  ASSUME StoreTyped, NEW k \in Keys, NEW c \in Content, NEW m \in 1 .. MaxMethod,
         c.method < m, m <= method, Backed(k, c), LandResult(k, c, m), method' = method
  PROVE  StoreTyped' /\ Forward /\ (Restamp(k) \/ UNCHANGED storeVars)
<1>1. backups' = backups
  BY DEF LandResult
<1>2. CASE obj[k] # c
  <2>1. obj' = obj
    BY <1>2 DEF LandResult, StoreTyped
  <2> QED BY <1>1, <2>1 DEF StoreTyped, Forward, Behind, Below, Backed, storeVars
<1>3. CASE obj[k] = c
  <2>1. obj' = [obj EXCEPT ![k] = Restamped(@, m)]
    BY <1>3 DEF LandResult
  <2>2. obj'[k] = [c EXCEPT !.method = m]
    BY <1>3, <2>1 DEF Restamped, StoreTyped
  <2>3. obj'[k] \in Content /\ obj'[k].version = c.version /\ obj'[k].method = m
    BY <2>2, ResultStoreAssumption DEF Content
  <2>4. \A q \in Keys \ {k} : obj'[q] = obj[q]
    BY <2>1 DEF StoreTyped
  <2>5. obj' \in [Keys -> Content \cup {Absent}]
    BY <2>1, <2>2, <2>3, <1>3 DEF StoreTyped, Restamped
  <2>6. StoreTyped'
    BY <1>1, <2>3, <2>4, <2>5 DEF StoreTyped
  <2>7. ASSUME NEW d \in Content, Behind(k, d)
        PROVE  Behind(k, d)' /\ Backed(k, d)'
    <3>1. Below(d, c)
      BY <2>7, <1>3, ContentIsPresent DEF Behind
    <3>2. Below(d, obj'[k]) /\ obj'[k] # d
      BY <3>1, <2>3, ContentTyped DEF Below
    <3> QED BY <3>2 DEF Behind, Below, Backed
  <2>8. ASSUME NEW q \in Keys \ {k}, NEW d \in Content, Behind(q, d)
        PROVE  Behind(q, d)' /\ (Backed(q, d) => Backed(q, d)')
    BY <2>8, <1>1, <2>4 DEF Behind, Below, Backed
  <2>9. Restamp(k)
    BY <1>1, <1>3, <2>1, ContentIsPresent DEF Restamp, Backed
  <2> QED BY <2>6, <2>7, <2>8, <2>9 DEF Forward
<1> QED BY <1>2, <1>3

(***************************************************************************)
(* What the worker holds, and what is under way.                           *)
(***************************************************************************)
LEMMA Untouched ==
  ASSUME StoreTyped, UNCHANGED storeVars, method' \in 1 .. MaxMethod, method <= method'
  PROVE  StoreTyped' /\ Forward
<1>1. \A k \in Keys : obj[k].method \in Int
  BY ContentTyped DEF StoreTyped, Absent
<1>2. \A k \in Keys : obj[k].method <= method'
  BY <1>1 DEF StoreTyped
<1> QED BY <1>2 DEF StoreTyped, Forward, storeVars, Behind, Below, Backed

LEMMA HeldKept ==
  ASSUME StoreTyped, Held, Forward, UNCHANGED <<pc, key, body, method>>
  PROVE  Held'
BY DEF Held, Forward, Carrying

LEMMA AwaitedKept ==
  ASSUME StoreTyped, Awaited, Forward, method' \in 1 .. MaxMethod, method <= method',
         late' \subseteq late
  PROVE  Awaited'
<1> SUFFICES ASSUME NEW w \in late'
             PROVE  /\ w \in Write
                    /\ w.old.method < w.method /\ w.method <= method'
                    /\ Behind(w.key, w.old)'
                    /\ w.to = "result" => Backed(w.key, w.old)'
  BY DEF Awaited
<1>1. /\ w \in Write
      /\ w.old.method < w.method /\ w.method <= method
      /\ Behind(w.key, w.old)
      /\ w.to = "result" => Backed(w.key, w.old)
  BY DEF Awaited
<1>2. w.key \in Keys /\ w.old \in Content /\ w.method \in Int
  BY <1>1 DEF Write
<1>3. w.method <= method'
  BY <1>1, <1>2 DEF StoreTyped
<1> QED BY <1>1, <1>2, <1>3 DEF Forward

\* A write that is given up while it is under way.
LEMMA GivenUp ==
  ASSUME IInv, GivesUp, UNCHANGED <<storeVars, method>>
  PROVE  Awaited'
<1>1. ASSUME NEW w \in UnderWay
      PROVE  /\ w \in Write
             /\ w.old.method < w.method /\ w.method <= method
             /\ Behind(w.key, w.old)
             /\ w.to = "result" => Backed(w.key, w.old)
  <2>1. pc \in {"backup", "put"} /\ \E t \in {"result", "backup"} :
           /\ w = [to |-> t, key |-> key, old |-> body, method |-> method]
           /\ t = "result" => pc = "put"
    BY <1>1 DEF UnderWay
  <2>2. PICK t \in {"result", "backup"} :
           /\ w = [to |-> t, key |-> key, old |-> body, method |-> method]
           /\ t = "result" => pc = "put"
    BY <2>1
  <2>3. w.to = t /\ w.key = key /\ w.old = body /\ w.method = method
    BY <2>2
  <2>4. key \in Keys /\ body \in Content /\ method \in 1 .. MaxMethod
    BY <2>1 DEF IInv, Held, StoreTyped, Carrying
  <2>5. w \in Write
    BY <2>2, <2>4 DEF Write
  <2>6. body.method < method /\ Behind(key, body) /\ (pc = "put" => Backed(key, body))
    BY <2>1 DEF IInv, Held, Carrying
  <2>7. method <= method
    BY DEF IInv, StoreTyped
  <2> QED BY <2>2, <2>3, <2>5, <2>6, <2>7
<1>2. late' \subseteq late \cup UnderWay
  BY DEF GivesUp
<1>3. \A k, c : (Behind(k, c)' <=> Behind(k, c)) /\ (Backed(k, c)' <=> Backed(k, c))
  BY DEF storeVars, Behind, Below, Backed
<1> QED BY <1>1, <1>2, <1>3 DEF IInv, Awaited

(***************************************************************************)
(* Every step keeps the invariant and is a step of ResultStore or none.    *)
(***************************************************************************)
LEMMA InvInit == RefreshInit => IInv
<1> SUFFICES ASSUME RefreshInit PROVE IInv
  OBVIOUS
<1>1. obj \in [Keys -> Content] /\ backups = [k \in Keys |-> {}] /\ method = 1 /\ late = {}
      /\ pc = "idle" /\ \A k \in Keys : obj[k].method <= method
  BY DEF RefreshInit, StoreInit
<1>2. method \in 1 .. MaxMethod
  BY <1>1, ResultStoreAssumption
<1>3. StoreTyped
  BY <1>1, <1>2 DEF StoreTyped
<1> QED BY <1>1, <1>3 DEF IInv, Held, Awaited, Carrying

Kept == IInv' /\ (StoreNext \/ UNCHANGED storeVars)

\* The worker's steps that touch no result and carry none away.
LEMMA IdleStep ==
  ASSUME IInv, UNCHANGED <<storeVars, method, late>>, pc' \notin Carrying
  PROVE  Kept
<1>1. method' \in 1 .. MaxMethod /\ method <= method'
  BY DEF IInv, StoreTyped
<1>2. StoreTyped' /\ Forward
  BY <1>1, Untouched DEF IInv
<1>3. Awaited'
  BY <1>1, <1>2, AwaitedKept DEF IInv
<1>4. Held'
  BY DEF Held, Carrying
<1> QED BY <1>2, <1>3, <1>4 DEF IInv, Kept

LEMMA ScanStep ==
  ASSUME IInv, BeginScan \/ AcquireSlot \/ Interrupted \/ EndScan \/ ListFails
               \/ \E k \in Keys : ScanObject(k)
  PROVE  Kept
<1>1. UNCHANGED <<storeVars, method, late>>
  BY DEF BeginScan, AcquireSlot, Interrupted, EndScan, ListFails, ScanObject, serverVars
<1>2. pc' \in {"listing", "stat", "idle", "leaving", "waiting"}
  BY DEF BeginScan, AcquireSlot, Interrupted, EndScan, ListFails, ScanObject
<1> QED BY <1>1, <1>2, IdleStep DEF Carrying

LEMMA StatStep ==
  ASSUME IInv, NEW k \in Keys, Stat(k) PROVE Kept
<1>1. UNCHANGED <<storeVars, method, late>>
  BY DEF Stat, serverVars
<1>2. CASE pc' = "listing"
  BY <1>1, <1>2, IdleStep DEF Carrying
<1>3. CASE pc' = "get" /\ body' = obj[k] /\ key' = k /\ obj[k].kind \in {"good", "unusable"}
  <2>1. obj[k] \in Content
    BY <1>3 DEF IInv, StoreTyped, Absent
  <2>2. method' \in 1 .. MaxMethod /\ method <= method'
    BY <1>1 DEF IInv, StoreTyped
  <2>3. StoreTyped' /\ Forward
    BY <1>1, <2>2, Untouched DEF IInv
  <2>4. Awaited'
    BY <1>1, <2>2, <2>3, AwaitedKept DEF IInv
  <2>5. obj' = obj /\ method' = method /\ body' = obj[k] /\ key' = k
    BY <1>1, <1>3 DEF storeVars
  <2>6. Below(obj[k], obj[k])
    BY <2>1, ContentTyped DEF Below
  <2>7. Behind(key, body)'
    BY <2>5, <2>6 DEF Behind, Below
  <2>8. body'.method <= method'
    BY <2>5 DEF IInv, StoreTyped
  <2>9. Held'
    BY <1>3, <2>1, <2>5, <2>7, <2>8 DEF Held, Carrying
  <2> QED BY <1>1, <2>3, <2>4, <2>9 DEF IInv, Kept
<1> QED BY <1>2, <1>3 DEF Stat, Count

LEMMA ReadStep ==
  ASSUME IInv, NEW k \in Keys, Get(k) \/ Analyze(k) PROVE Kept
<1>1. UNCHANGED <<storeVars, method, late>>
  BY DEF Get, Analyze, serverVars
<1>2. CASE pc' = "listing"
  BY <1>1, <1>2, IdleStep DEF Carrying
<1>3. CASE /\ pc \in Carrying /\ UNCHANGED <<key, body>>
           /\ pc' = "analyze" \/ (pc' = "backup" /\ body.method # method)
  <2>1. method' \in 1 .. MaxMethod /\ method <= method'
    BY <1>1 DEF IInv, StoreTyped
  <2>2. StoreTyped' /\ Forward
    BY <1>1, <2>1, Untouched DEF IInv
  <2>3. Awaited'
    BY <1>1, <2>1, <2>2, AwaitedKept DEF IInv
  <2>4. key \in Keys /\ body \in Content /\ body.method <= method /\ Behind(key, body)
    BY <1>3 DEF IInv, Held
  <2>5. Behind(key, body)'
    BY <1>3, <2>2, <2>4 DEF Forward
  <2>6. pc' = "backup" => body.method < method
    BY <1>3, <2>4, ContentTyped DEF IInv, StoreTyped
  <2>7. Held'
    BY <1>1, <1>3, <2>4, <2>5, <2>6 DEF Held, Carrying
  <2> QED BY <1>1, <2>2, <2>3, <2>7 DEF IInv, Kept
<1> QED BY <1>2, <1>3 DEF Get, Analyze, Count, Current, Carrying

LEMMA BackupStep ==
  ASSUME IInv, NEW k \in Keys, Backup(k) PROVE Kept
<1>1. /\ pc = "backup" /\ pc' = "put" /\ key = k /\ LandBackup(k, body)
      /\ UNCHANGED <<key, body, method, late>>
  BY DEF Backup, serverVars
<1>2. body \in Content /\ body.method < method /\ body.method <= method /\ Behind(key, body)
  BY <1>1 DEF IInv, Held, Carrying
<1>3. StoreTyped' /\ Forward /\ Keep(k) /\ Backed(k, body)'
  BY <1>1, <1>2, BackupForward DEF IInv
<1>4. Awaited'
  BY <1>1, <1>3, AwaitedKept DEF IInv, StoreTyped
<1>5. Behind(key, body)'
  BY <1>1, <1>2, <1>3 DEF Forward
<1>6. Held'
  BY <1>1, <1>2, <1>3, <1>5 DEF Held, Carrying
<1> QED BY <1>3, <1>4, <1>6 DEF IInv, Kept, StoreNext

LEMMA PutStep ==
  ASSUME IInv, NEW k \in Keys, PutResult(k) PROVE Kept
<1>1. /\ pc = "put" /\ pc' = "listing" /\ key = k /\ LandResult(k, body, method)
      /\ UNCHANGED <<method, late>>
  BY DEF PutResult, Count, serverVars
<1>2. body \in Content /\ body.method < method /\ Backed(k, body)
  BY <1>1 DEF IInv, Held, Carrying
<1>3. method \in 1 .. MaxMethod /\ method <= method
  BY DEF IInv, StoreTyped
<1>4. StoreTyped' /\ Forward /\ (Restamp(k) \/ UNCHANGED storeVars)
  BY <1>1, <1>2, <1>3, ResultForward DEF IInv
<1>5. Awaited'
  BY <1>1, <1>3, <1>4, AwaitedKept DEF IInv
<1>6. Held'
  BY <1>1 DEF Held, Carrying
<1> QED BY <1>4, <1>5, <1>6 DEF IInv, Kept, StoreNext

\* A call that fails, and the end of the process.
LEMMA GiveUpStep ==
  ASSUME IInv, CallFails \/ Cease PROVE Kept
<1>1. UNCHANGED <<storeVars, method>> /\ GivesUp /\ pc' \in {"listing", "down"}
  BY DEF CallFails, Cease, Count
<1>2. method' \in 1 .. MaxMethod /\ method <= method'
  BY <1>1 DEF IInv, StoreTyped
<1>3. StoreTyped'
  BY <1>1, <1>2, Untouched DEF IInv
<1>4. Awaited'
  BY <1>1, GivenUp
<1>5. Held'
  BY <1>1 DEF Held, Carrying
<1> QED BY <1>1, <1>3, <1>4, <1>5 DEF IInv, Kept

LEMMA LateStep ==
  ASSUME IInv, NEW w \in late, LateWrite(w) PROVE Kept
<1>1. late' \subseteq late /\ UNCHANGED <<pc, key, body, method>>
  BY DEF LateWrite, serverVars, workerVars
<1>2. method \in 1 .. MaxMethod /\ method <= method
  BY DEF IInv, StoreTyped
<1>3. /\ w \in Write /\ w.old.method < w.method /\ w.method <= method
      /\ w.to = "result" => Backed(w.key, w.old)
  BY DEF IInv, Awaited
<1>4. w.key \in Keys /\ w.old \in Content /\ w.method \in 1 .. MaxMethod
  BY <1>3 DEF Write
<1>5. StoreTyped' /\ Forward /\ (StoreNext \/ UNCHANGED storeVars)
  <2>1. CASE LandBackup(w.key, w.old)
    BY <1>1, <1>4, <2>1, BackupForward DEF IInv, StoreNext
  <2>2. CASE w.to = "result" /\ LandResult(w.key, w.old, w.method)
    BY <1>1, <1>3, <1>4, <2>2, ResultForward DEF IInv, StoreNext
  <2>3. CASE UNCHANGED storeVars
    BY <1>1, <1>2, <2>3, Untouched DEF IInv
  <2> QED BY <2>1, <2>2, <2>3 DEF LateWrite
<1>6. Awaited'
  BY <1>1, <1>2, <1>5, AwaitedKept DEF IInv
<1>7. Held'
  BY <1>1, <1>5, HeldKept DEF IInv
<1> QED BY <1>5, <1>6, <1>7 DEF IInv, Kept

LEMMA AppStep ==
  ASSUME IInv, NEW k \in Keys, AppWrites(k) PROVE Kept
<1>1. /\ AppUpdates(k) \/ AppDeletes(k)
      /\ UNCHANGED <<pc, key, body, method, late>>
  BY DEF AppWrites, serverVars, workerVars
<1>2. StoreTyped' /\ Forward
  BY <1>1, AppForward DEF IInv
<1>3. Awaited' /\ Held'
  BY <1>1, <1>2, AwaitedKept, HeldKept DEF IInv, StoreTyped
<1> QED BY <1>1, <1>2, <1>3 DEF IInv, Kept, StoreNext

\* The server stops or starts, perhaps with a newer method.
LEMMA ServerStep ==
  ASSUME IInv, Stop \/ Restart PROVE Kept
<1>1. CASE Stop
  <2>1. UNCHANGED <<storeVars, pc, key, body, method, late>>
    BY <1>1 DEF Stop, workerVars
  <2>2. method' \in 1 .. MaxMethod /\ method <= method'
    BY <2>1 DEF IInv, StoreTyped
  <2>3. StoreTyped' /\ Forward
    BY <2>1, <2>2, Untouched DEF IInv
  <2> QED BY <2>1, <2>2, <2>3, HeldKept, AwaitedKept DEF IInv, Kept
<1>2. CASE Restart
  <2>1. UNCHANGED <<storeVars, late>> /\ pc' = "idle" /\ method' \in method .. MaxMethod
    BY <1>2 DEF Restart
  <2>2. method' \in 1 .. MaxMethod /\ method <= method'
    BY <2>1, ResultStoreAssumption DEF IInv, StoreTyped
  <2>3. StoreTyped' /\ Forward
    BY <2>1, <2>2, Untouched DEF IInv
  <2>4. Awaited'
    BY <2>1, <2>2, <2>3, AwaitedKept DEF IInv
  <2>5. Held'
    BY <2>1 DEF Held, Carrying
  <2> QED BY <2>1, <2>3, <2>4, <2>5 DEF IInv, Kept
<1> QED BY <1>1, <1>2

LEMMA InvNext == IInv /\ [RefreshNext]_refreshVars => Kept
<1> SUFFICES ASSUME IInv, [RefreshNext]_refreshVars PROVE Kept
  OBVIOUS
<1>1. CASE RefreshNext
  BY <1>1, ScanStep, StatStep, ReadStep, BackupStep, PutStep, GiveUpStep, LateStep, AppStep,
     ServerStep DEF RefreshNext, WorkerStep, ObjectStep
<1>2. CASE UNCHANGED refreshVars
  <2>1. UNCHANGED <<storeVars, pc, key, body, method, late>>
    BY <1>2 DEF refreshVars, storeVars
  <2>2. method' \in 1 .. MaxMethod /\ method <= method'
    BY <2>1 DEF IInv, StoreTyped
  <2>3. StoreTyped' /\ Forward
    BY <2>1, <2>2, Untouched DEF IInv
  <2> QED BY <2>1, <2>2, <2>3, HeldKept, AwaitedKept DEF IInv, Kept
<1> QED BY <1>1, <1>2

(***************************************************************************)
(* The theorem.                                                            *)
(***************************************************************************)
\* "Conditional object writes prevent overwriting concurrent updates"
\* (CLOUD_SETUP.md): under any failures, restarts and late writes the refresh
\* changes only the stamp of a result, and only with a copy of it kept.
THEOREM RefreshImplementsStore == RefreshSpec => ImplementsResultStore
<1>1. RefreshInit => StoreInit
  BY DEF RefreshInit
<1>2. IInv /\ [RefreshNext]_refreshVars => IInv' /\ [StoreNext]_storeVars
  BY InvNext DEF Kept
<1>3. RefreshSpec => []IInv
  BY InvInit, <1>2, PTL DEF RefreshSpec
<1> QED BY <1>1, <1>2, <1>3, PTL DEF RefreshSpec, ImplementsResultStore, StoreSpec

(***************************************************************************)
(* The status.  Books says what the counters are at each place of the      *)
(* worker; Pass, what a pass without failures has established of the       *)
(* results that the application left alone, and that the worker's content  *)
(* of such a result has the version that is there.                         *)
(***************************************************************************)
Passing == {"listing", "leaving", "waiting"} \cup Calling
Tallies == [state : {"pending", "running", "complete", "retrying", "interrupted"},
            scanned : Nat, updated : Nat, current : Nat, failed : Nat]

Gap == tally.scanned - (tally.updated + tally.current + tally.failed)

Books ==
    /\ tally \in Tallies
    /\ pc \in {"down", "idle"} \cup Passing
    /\ up = "down" <=> pc = "down"
    /\ pc \in Passing <=> tally.state = "running"
    /\ pc = "down" => tally = Zero
    /\ pc \in {"waiting"} \cup Calling => Gap = 1 /\ key \in Keys
    /\ pc = "listing" => Gap = 0
    /\ pc = "leaving" => Gap = -1 /\ tally.failed > 0
    /\ pc = "idle" => \/ tally.state = "interrupted" /\ Gap \in {-1, 0, 1}
                      \/ tally.state = "retrying" /\ Gap \in {-1, 0}
                      \/ tally.state \in {"complete", "pending"} /\ Gap = 0

Seen(k)   == obj[k] # Absent => Current(obj[k])
Listed(k) == \E e \in unseen : e.key = k

Pass ==
    /\ pc \in Passing /\ tally.failed = 0 =>
          \A k \in Keys \ touched : Seen(k) \/ Listed(k) \/ (pc # "listing" /\ key = k)
    /\ tally.state = "complete" => \A k \in Keys \ touched : Seen(k)
    /\ pc \in Carrying /\ key \notin touched =>
          obj[key] # Absent /\ obj[key].version = body.version

\* A result that the application leaves alone stays there in its version, and
\* current once it is.
Steady ==
    \A k \in Keys \ touched' :
        /\ obj[k] = Absent => obj'[k] = Absent
        /\ obj[k] # Absent => obj'[k] # Absent /\ obj'[k].version = obj[k].version
        /\ Current(obj[k]) => obj'[k].method = method

LEMMA SteadyStore ==
  ASSUME UNCHANGED obj
  PROVE  Steady
BY DEF Steady, Current

LEMMA SteadyResult ==
  ASSUME StoreTyped, NEW k \in Keys, NEW c \in Content, NEW m \in 1 .. MaxMethod,
         c.method < m, m <= method, LandResult(k, c, m)
  PROVE  Steady /\ (obj[k] = c => obj'[k].method = m)
<1>1. CASE obj[k] # c
  BY <1>1, SteadyStore DEF LandResult, StoreTyped
<1>2. CASE obj[k] = c
  <2>1. obj'[k] = [c EXCEPT !.method = m] /\ \A q \in Keys \ {k} : obj'[q] = obj[q]
    BY <1>2 DEF LandResult, Restamped, StoreTyped
  <2>2. obj'[k] # Absent /\ obj'[k].version = c.version /\ obj'[k].method = m
    <3>1. obj'[k] \in Content /\ obj'[k].version = c.version /\ obj'[k].method = m
      BY <2>1, ResultStoreAssumption DEF Content
    <3> QED BY <3>1, ContentIsPresent
  <2>3. c # Absent /\ ~Current(c)
    BY ContentIsPresent, ContentTyped DEF StoreTyped, Current
  <2> QED BY <1>2, <2>1, <2>2, <2>3 DEF Steady, Current
<1> QED BY <1>1, <1>2

\* What nobody but the worker disturbs.
LEMMA PassKept ==
  ASSUME Pass, Steady, touched \subseteq touched', UNCHANGED <<pc, key, body, tally, unseen, method>>,
         pc \in Carrying => key \in Keys
  PROVE  Pass'
<1>1. ASSUME NEW k \in Keys \ touched', Seen(k) PROVE Seen(k)'
  BY <1>1 DEF Steady, Seen, Current
<1>2. ASSUME NEW k \in Keys \ touched' PROVE k \in Keys \ touched /\ Listed(k)' = Listed(k)
  BY DEF Listed
<1>3. ASSUME pc' \in Passing, tally'.failed = 0, NEW k \in Keys \ touched'
      PROVE  Seen(k)' \/ Listed(k)' \/ (pc' # "listing" /\ key' = k)
  BY <1>1, <1>2, <1>3 DEF Pass
<1>4. ASSUME tally'.state = "complete", NEW k \in Keys \ touched' PROVE Seen(k)'
  BY <1>1, <1>2, <1>4 DEF Pass
<1>5. ASSUME pc' \in Carrying, key' \notin touched'
      PROVE  obj'[key'] # Absent /\ obj'[key'].version = body'.version
  BY <1>5 DEF Pass, Steady
<1> QED BY <1>3, <1>4, <1>5 DEF Pass

LEMMA Counting ==
  ASSUME tally \in Tallies, NEW outcome \in {"updated", "current", "failed"}, Count(outcome)
  PROVE  /\ tally' \in Tallies /\ tally'.state = tally.state /\ Gap' = Gap - 1
         /\ tally'.failed = IF outcome = "failed" THEN tally.failed + 1 ELSE tally.failed
<1>1. /\ tally.scanned \in Nat /\ tally.updated \in Nat /\ tally.current \in Nat /\ tally.failed \in Nat
      /\ tally' = [tally EXCEPT ![outcome] = @ + 1]
  BY DEF Tallies, Count
<1>2. tally' \in Tallies /\ tally'.state = tally.state /\ tally'.scanned = tally.scanned
  BY <1>1 DEF Tallies
<1>3. /\ tally'.updated = IF outcome = "updated" THEN tally.updated + 1 ELSE tally.updated
      /\ tally'.current = IF outcome = "current" THEN tally.current + 1 ELSE tally.current
      /\ tally'.failed = IF outcome = "failed" THEN tally.failed + 1 ELSE tally.failed
  BY <1>1 DEF Tallies
<1> QED BY <1>1, <1>2, <1>3 DEF Gap

Reckoned == Books /\ Pass

\* The object that the worker is at is done with.
LEMMA CountStep ==
  ASSUME Reckoned, pc \in Calling, NEW outcome \in {"updated", "current", "failed"}, Count(outcome),
         UNCHANGED <<touched, method, up>>, Steady,
         outcome # "failed" => \A k \in Keys \ touched : key = k => Seen(k)'
  PROVE  Reckoned'
<1>1. /\ tally \in Tallies /\ Gap = 1 /\ tally.state = "running" /\ up # "down"
  BY DEF Reckoned, Books, Passing, Calling
<1>2. /\ tally' \in Tallies /\ tally'.state = "running" /\ Gap' = 0
      /\ tally'.failed = IF outcome = "failed" THEN tally.failed + 1 ELSE tally.failed
  BY <1>1, Counting
<1>3. pc' = "listing" /\ unseen' = unseen
  BY DEF Count
<1>4. Books'
  BY <1>1, <1>2, <1>3 DEF Books, Passing, Calling
<1>5. ASSUME tally'.failed = 0, NEW k \in Keys \ touched'
      PROVE  Seen(k)' \/ Listed(k)'
  <2>1. tally.failed = 0 /\ outcome # "failed"
    BY <1>1, <1>2, <1>5 DEF Tallies
  <2>2. Seen(k) \/ Listed(k) \/ key = k
    BY <2>1 DEF Reckoned, Pass, Passing
  <2>3. Seen(k) => Seen(k)'
    BY DEF Steady, Seen, Current
  <2>4. key = k => Seen(k)'
    BY <2>1
  <2> QED BY <1>3, <2>2, <2>3, <2>4 DEF Listed
<1>6. Pass'
  BY <1>2, <1>3, <1>5 DEF Pass, Carrying
<1> QED BY <1>4, <1>6 DEF Reckoned

\* What was read of a result that the application left alone, and is not there
\* any more, is not current: the refresh has replaced it.
LEMMA HeldCurrent ==
  ASSUME IInv, Reckoned, pc \in Carrying, key \notin touched, Current(body)
  PROVE  Current(obj[key])
<1>1. /\ key \in Keys /\ body \in Content /\ Below(body, obj[key])
      /\ obj[key] # Absent /\ obj[key].version = body.version
  BY DEF IInv, Held, Behind, Reckoned, Pass
<1>2. obj[key] \in Content /\ obj[key].method <= method /\ method \in Int
  BY <1>1 DEF IInv, StoreTyped
<1> QED BY <1>1, <1>2, ContentTyped DEF Below, Current

\* From one call about an object to the next.
LEMMA MoveStep ==
  ASSUME Reckoned, pc \in {"waiting"} \cup Calling, pc' \in Calling, Steady,
         UNCHANGED <<key, tally, unseen, touched, method, up>>,
         pc' \in Carrying /\ key \notin touched => obj'[key] # Absent /\ obj'[key].version = body'.version
  PROVE  Reckoned'
<1>1. Books'
  BY DEF Reckoned, Books, Passing, Calling, Gap
<1>2. ASSUME tally'.failed = 0, NEW k \in Keys \ touched'
      PROVE  Seen(k)' \/ Listed(k)' \/ key' = k
  <2>1. Seen(k) \/ Listed(k) \/ key = k
    BY <1>2 DEF Reckoned, Pass, Passing
  <2> QED BY <2>1 DEF Listed, Steady, Seen, Current
<1>3. tally'.state # "complete" /\ pc' # "listing"
  BY DEF Reckoned, Books, Passing, Calling
<1> QED BY <1>1, <1>2, <1>3 DEF Reckoned, Pass

LEMMA ReckonScan ==
  ASSUME IInv, Reckoned, BeginScan \/ ListFails \/ Interrupted \/ EndScan \/ \E k \in Keys : ScanObject(k)
  PROVE  Reckoned'
<1>1. /\ tally \in Tallies /\ tally.scanned \in Nat /\ tally.updated \in Nat
      /\ tally.current \in Nat /\ tally.failed \in Nat
  BY DEF Reckoned, Books, Tallies
<1>2. CASE BeginScan
  <2>1. /\ tally'.state = "running" /\ tally' \in Tallies /\ Gap' = 0 /\ pc' = "listing" /\ pc = "idle"
        /\ up' = up /\ obj' = obj
    BY <1>2 DEF BeginScan, Zero, Tallies, Gap, serverVars, storeVars
  <2>2. ASSUME NEW k \in Keys PROVE Seen(k)' \/ Listed(k)'
    <3>1. CASE obj[k] = Absent
      BY <2>1, <3>1 DEF Seen
    <3>2. CASE obj[k] # Absent
      <4>1. [key |-> k, huge |-> obj[k].kind = "huge"] \in unseen'
        BY <1>2, <3>2 DEF BeginScan
      <4> QED BY <4>1 DEF Listed
    <3> QED BY <3>1, <3>2
  <2>3. Books'
    BY <2>1 DEF Reckoned, Books, Passing, Calling
  <2>4. Pass'
    BY <2>1, <2>2 DEF Pass, Carrying
  <2> QED BY <2>3, <2>4 DEF Reckoned
<1>3. CASE ListFails
  <2>1. tally' \in Tallies /\ tally'.state = tally.state /\ tally'.scanned = tally.scanned
        /\ tally'.updated = tally.updated /\ tally'.current = tally.current
        /\ tally'.failed = tally.failed + 1
    BY <1>1, <1>3 DEF ListFails, Tallies
  <2>2. pc = "listing" /\ pc' = "leaving" /\ up' = up
    BY <1>3 DEF ListFails
  <2>3. Gap = 0 /\ tally.state = "running" /\ up # "down"
    BY <2>2 DEF Reckoned, Books, Passing
  <2>4. Gap' = -1 /\ tally'.failed > 0
    BY <1>1, <2>1, <2>3 DEF Gap
  <2>5. Books'
    BY <2>1, <2>2, <2>3, <2>4 DEF Books, Passing, Calling
  <2>6. Pass'
    BY <2>1, <2>2, <2>3, <2>4 DEF Pass, Carrying
  <2> QED BY <2>5, <2>6 DEF Reckoned
<1>4. CASE Interrupted
  <2>1. tally' \in Tallies /\ tally'.state = "interrupted" /\ Gap' = Gap
    BY <1>1, <1>4 DEF Interrupted, Tallies, Gap
  <2>2. pc = "waiting" /\ pc' = "idle" /\ up' = up
    BY <1>4 DEF Interrupted, serverVars
  <2>3. Books'
    BY <2>1, <2>2 DEF Reckoned, Books, Passing, Calling
  <2>4. Pass'
    BY <2>1, <2>2 DEF Pass, Carrying, Passing, Calling
  <2> QED BY <2>3, <2>4 DEF Reckoned
<1>5. CASE EndScan
  <2>1. tally' \in Tallies /\ Gap' = Gap
        /\ tally'.state = (IF up = "stopping" THEN "interrupted"
                           ELSE IF tally.failed > 0 THEN "retrying" ELSE "complete")
    BY <1>1, <1>5 DEF EndScan, Tallies, Gap
  <2>2. pc \in {"listing", "leaving"} /\ pc' = "idle" /\ (unseen = {} \/ up = "stopping")
        /\ UNCHANGED <<up, method, obj, touched>>
    BY <1>5 DEF EndScan, serverVars, storeVars
  <2>3. Gap \in {-1, 0} /\ up # "down" /\ (pc = "leaving" => tally.failed > 0)
        /\ (tally.failed > 0 \/ Gap = 0)
    BY <2>2 DEF Reckoned, Books, Passing
  <2>4. Books'
    BY <2>1, <2>2, <2>3 DEF Books, Passing, Calling
  <2>5. ASSUME tally'.state = "complete", NEW k \in Keys \ touched PROVE Seen(k)'
    <3>1. tally.failed = 0 /\ pc = "listing" /\ unseen = {}
      BY <1>1, <2>1, <2>2, <2>3, <2>5
    <3> QED BY <2>2, <2>5, <3>1 DEF Reckoned, Pass, Passing, Listed, Seen, Current
  <2>6. Pass'
    BY <2>2, <2>5 DEF Pass, Carrying, Passing, Calling
  <2> QED BY <2>4, <2>6 DEF Reckoned
<1>6. ASSUME NEW k \in Keys, ScanObject(k) PROVE Reckoned'
  <2>1. PICK e \in unseen : /\ e.key = k /\ unseen' = unseen \ {e}
                            /\ \/ /\ tally' = [tally EXCEPT !.scanned = @ + 1, !.failed = @ + 1]
                                  /\ UNCHANGED <<pc, key>>
                               \/ /\ tally' = [tally EXCEPT !.scanned = @ + 1]
                                  /\ pc' = "waiting" /\ key' = k
    BY <1>6 DEF ScanObject
  <2>2. pc = "listing" /\ UNCHANGED <<up, method, obj, touched>>
    BY <1>6 DEF ScanObject, serverVars, storeVars
  <2>3. Gap = 0 /\ tally.state = "running" /\ up # "down"
    BY <2>2 DEF Reckoned, Books, Passing
  <2>4. CASE tally' = [tally EXCEPT !.scanned = @ + 1, !.failed = @ + 1] /\ UNCHANGED <<pc, key>>
    <3>1. tally' \in Tallies /\ tally'.state = tally.state /\ tally'.scanned = tally.scanned + 1
          /\ tally'.updated = tally.updated /\ tally'.current = tally.current
          /\ tally'.failed = tally.failed + 1
      <4> DEFINE mid == [tally EXCEPT !.scanned = @ + 1]
      <4>1. /\ mid \in Tallies /\ mid.state = tally.state /\ mid.scanned = tally.scanned + 1
            /\ mid.updated = tally.updated /\ mid.current = tally.current /\ mid.failed = tally.failed
        BY <1>1 DEF Tallies
      <4>2. tally' = [mid EXCEPT !.failed = @ + 1]
        BY <1>1, <2>4
      <4> HIDE DEF mid
      <4> QED BY <1>1, <4>1, <4>2 DEF Tallies
    <3>2. Gap' = 0 /\ tally'.failed # 0
      BY <1>1, <2>3, <3>1 DEF Gap
    <3>3. Books'
      BY <2>2, <2>3, <2>4, <3>1, <3>2 DEF Books, Passing, Calling
    <3>4. Pass'
      BY <2>2, <2>3, <2>4, <3>1, <3>2 DEF Pass, Carrying
    <3> QED BY <3>3, <3>4 DEF Reckoned
  <2>5. CASE tally' = [tally EXCEPT !.scanned = @ + 1] /\ pc' = "waiting" /\ key' = k
    <3>1. tally' \in Tallies /\ tally'.state = tally.state /\ tally'.scanned = tally.scanned + 1
          /\ tally'.updated = tally.updated /\ tally'.current = tally.current
          /\ tally'.failed = tally.failed
      BY <1>1, <2>5 DEF Tallies
    <3>2. Gap' = 1
      BY <1>1, <2>3, <3>1 DEF Gap
    <3>3. Books'
      BY <2>2, <2>3, <2>5, <3>1, <3>2 DEF Books, Passing, Calling
    <3>4. ASSUME tally'.failed = 0, NEW q \in Keys \ touched PROVE Seen(q)' \/ Listed(q)' \/ key' = q
      <4>1. Seen(q) \/ Listed(q)
        BY <2>2, <3>1, <3>4 DEF Reckoned, Pass, Passing
      <4>2. Listed(q) => Listed(q)' \/ q = k
        BY <2>1 DEF Listed
      <4> QED BY <2>2, <2>5, <4>1, <4>2 DEF Seen, Current
    <3>5. Pass'
      BY <2>2, <2>3, <2>5, <3>1, <3>4 DEF Pass, Carrying
    <3> QED BY <3>3, <3>5 DEF Reckoned
  <2> QED BY <2>1, <2>4, <2>5
<1> QED BY <1>2, <1>3, <1>4, <1>5, <1>6

LEMMA ReckonObject ==
  ASSUME IInv, Reckoned, NEW k \in Keys, ObjectStep(k)
  PROVE  Reckoned'
<1>1. UNCHANGED <<touched, method, up>>
  BY DEF ObjectStep, Stat, Get, Analyze, Backup, PutResult, serverVars
<1>2. pc \in Calling /\ key = k
  BY DEF ObjectStep, Stat, Get, Analyze, Backup, PutResult, Calling
<1>3. CASE Stat(k)
  <2>1. obj' = obj /\ Steady
    BY <1>3, SteadyStore DEF Stat, storeVars
  <2>2. CASE obj[k] = Absent /\ Count("current")
    BY <1>1, <1>2, <2>1, <2>2, CountStep DEF Seen
  <2>3. CASE Count("failed")
    BY <1>1, <1>2, <2>1, <2>3, CountStep
  <2>4. CASE obj[k].kind \in {"good", "unusable"} /\ body' = obj[k] /\ pc' = "get"
             /\ UNCHANGED <<unseen, key, tally>>
    <3>1. obj[k] # Absent
      BY <2>4 DEF Absent
    <3> QED BY <1>1, <1>2, <2>1, <2>4, <3>1, MoveStep DEF Calling
  <2> QED BY <1>3, <2>2, <2>3, <2>4 DEF Stat
<1>4. CASE Get(k)
  <2>1. obj' = obj /\ Steady /\ pc = "get"
    BY <1>4, SteadyStore DEF Get, storeVars
  <2>2. CASE Count("failed")
    BY <1>1, <1>2, <2>1, <2>2, CountStep
  <2>3. CASE pc' = "analyze" /\ UNCHANGED <<unseen, key, body, tally>>
    BY <1>1, <1>2, <2>1, <2>3, MoveStep DEF Calling, Carrying, Reckoned, Pass
  <2> QED BY <1>4, <2>2, <2>3 DEF Get
<1>5. CASE Analyze(k)
  <2>1. obj' = obj /\ Steady /\ pc = "analyze"
    BY <1>5, SteadyStore DEF Analyze, storeVars
  <2>2. CASE Current(body) /\ Count("current")
    <3>1. key \notin touched => Current(obj[key])
      BY <2>1, <2>2, HeldCurrent DEF Carrying
    <3>2. \A q \in Keys \ touched : key = q => Seen(q)'
      BY <1>1, <2>1, <3>1 DEF Seen, Current
    <3> QED BY <1>1, <1>2, <2>1, <2>2, <3>2, CountStep
  <2>3. CASE Count("failed")
    BY <1>1, <1>2, <2>1, <2>3, CountStep
  <2>4. CASE pc' = "backup" /\ UNCHANGED <<unseen, key, body, tally>>
    BY <1>1, <1>2, <2>1, <2>4, MoveStep DEF Calling, Carrying, Reckoned, Pass
  <2> QED BY <1>5, <2>2, <2>3, <2>4 DEF Analyze
<1>6. CASE Backup(k)
  <2>1. obj' = obj /\ Steady /\ pc = "backup" /\ pc' = "put" /\ UNCHANGED <<unseen, key, body, tally>>
    BY <1>6, SteadyStore DEF Backup, LandBackup
  <2> QED BY <1>1, <1>2, <2>1, MoveStep DEF Calling, Carrying, Reckoned, Pass
<1>7. CASE PutResult(k)
  <2>1. body \in Content /\ body.method < method /\ method \in 1 .. MaxMethod /\ method <= method
    BY <1>7 DEF PutResult, IInv, Held, StoreTyped, Carrying
  <2>2. LandResult(k, body, method)
    BY <1>7 DEF PutResult
  <2>3. Steady /\ (obj[k] = body => obj'[k].method = method)
    BY <2>1, <2>2, SteadyResult DEF IInv
  <2>4. CASE obj[k] = body
    <3>1. Count("updated")
      BY <1>7, <2>4 DEF PutResult
    <3>2. \A q \in Keys \ touched : key = q => Seen(q)'
      BY <1>1, <1>2, <2>3, <2>4 DEF Seen, Current
    <3> QED BY <1>1, <1>2, <2>3, <3>1, <3>2, CountStep
  <2>5. CASE obj[k] # body
    <3>1. Count("failed")
      BY <1>7, <2>5 DEF PutResult
    <3> QED BY <1>1, <1>2, <2>3, <3>1, CountStep
  <2> QED BY <2>4, <2>5
<1> QED BY <1>3, <1>4, <1>5, <1>6, <1>7 DEF ObjectStep

LEMMA ReckonSlot == ASSUME IInv, Reckoned, AcquireSlot \/ CallFails PROVE Reckoned'
<1>1. UNCHANGED <<touched, method, up, obj>> /\ Steady
  BY SteadyStore DEF AcquireSlot, CallFails, serverVars, storeVars
<1>2. CASE AcquireSlot
  BY <1>1, <1>2, MoveStep DEF AcquireSlot, Calling, Carrying
<1>3. CASE CallFails
  BY <1>1, <1>3, CountStep DEF CallFails
<1> QED BY <1>2, <1>3

\* What others do while the worker stands.
LEMMA ReckonOthers ==
  ASSUME IInv, Reckoned,
         \/ \E k \in Keys : AppWrites(k)
         \/ \E w \in late : LateWrite(w)
         \/ Stop
         \/ UNCHANGED refreshVars
  PROVE  Reckoned'
<1>1. /\ UNCHANGED <<pc, key, body, tally, unseen, method>> /\ touched \subseteq touched'
      /\ up' = up \/ (up = "up" /\ up' = "stopping")
  BY DEF AppWrites, LateWrite, Stop, serverVars, workerVars, refreshVars
<1>2. Books'
  BY <1>1 DEF Reckoned, Books, Gap
<1>3. Steady
  <2>1. ASSUME NEW k \in Keys, AppWrites(k) PROVE Steady
    <3>1. \A q \in Keys \ touched' : obj'[q] = obj[q]
      BY <2>1 DEF AppWrites, AppUpdates, AppDeletes, IInv, StoreTyped
    <3> QED BY <3>1 DEF Steady, Current
  <2>2. ASSUME NEW w \in late, LateWrite(w) PROVE Steady
    <3>1. /\ w.key \in Keys /\ w.old \in Content /\ w.method \in 1 .. MaxMethod
          /\ w.old.method < w.method /\ w.method <= method
      BY DEF IInv, Awaited, Write
    <3> QED BY <2>2, <3>1, SteadyResult, SteadyStore DEF LateWrite, LandBackup, storeVars, IInv
  <2>3. CASE Stop \/ UNCHANGED refreshVars
    BY <2>3, SteadyStore DEF Stop, refreshVars, storeVars
  <2> QED BY <2>1, <2>2, <2>3
<1>4. Pass'
  BY <1>1, <1>3, PassKept DEF IInv, Held, Reckoned
<1> QED BY <1>2, <1>4 DEF Reckoned

LEMMA ReckonServer == ASSUME IInv, Reckoned, Cease \/ Restart PROVE Reckoned'
<1>1. CASE Cease
  <2>1. tally' = Zero /\ pc' = "down" /\ up' = "down"
    BY <1>1 DEF Cease
  <2> QED BY <2>1 DEF Reckoned, Books, Pass, Zero, Tallies, Passing, Calling, Carrying
<1>2. CASE Restart
  <2>1. tally' = tally /\ pc' = "idle" /\ up' = "up" /\ tally = Zero
    BY <1>2 DEF Restart, Reckoned, Books
  <2> QED BY <2>1 DEF Reckoned, Books, Pass, Zero, Tallies, Passing, Calling, Carrying, Gap
<1> QED BY <1>1, <1>2

LEMMA ReckonInit == RefreshInit => Reckoned
BY DEF RefreshInit, Reckoned, Books, Pass, Zero, Tallies, Passing, Calling, Carrying, Gap

LEMMA ReckonNext == IInv /\ Reckoned /\ [RefreshNext]_refreshVars => Reckoned'
BY ReckonScan, ReckonObject, ReckonSlot, ReckonOthers, ReckonServer DEF RefreshNext, WorkerStep

\* aiRefreshStatus, as GET /ai-reanalysis reports it: its counters account for every
\* object that the listing delivered, and a pass that ends complete has left every
\* result the application did not write meanwhile with the engine's method.
THEOREM Status == RefreshSpec => []StatusHonest
<1>1. Reckoned => StatusHonest
  BY DEF Reckoned, Books, Pass, StatusHonest, Gap, Seen, Passing
<1>2. RefreshSpec => []IInv
  BY InvInit, InvNext, PTL DEF RefreshSpec, Kept
<1> QED BY <1>1, <1>2, ReckonInit, ReckonNext, PTL DEF RefreshSpec

(***************************************************************************)
(* The server.                                                             *)
(***************************************************************************)
\* exitWhenIdle alone decides, in one look at the counter and the clock.
LEMMA DecisionStep ==
  [Next]_vars => [phase # "decided" /\ phase' = "decided" => ~Working /\ ~Working']_vars
<1>1. ASSUME Next, phase # "decided", phase' = "decided"
      PROVE  ~Working /\ ~Working'
  <2>1. CASE ReadIdle
    <3>1. ~Busy
      BY <1>1, <2>1 DEF ReadIdle
    <3>2. UNCHANGED <<status, callbacks>>
      BY <2>1 DEF ReadIdle, queueVars
    <3> QED BY <3>1, <3>2 DEF Busy, Working, Unsettled
  <2>2. ReadIdle \/ phase' = phase \/ phase' # "decided"
    BY <1>1 DEF Next, Arrive, Answer, Submit, GradeStep, LeaveSlot, Drop, SettleRun, EndJob,
       BeginPass, TakeObject, LeaveObject, EndPass, Elapse, Shutdown, Exit, Crash, Boot
  <2> QED BY <1>1, <2>1, <2>2
<1> QED BY <1>1

LEMMA AwayInv == NoRefresh => IInv /\ Reckoned
<1> SUFFICES ASSUME NoRefresh PROVE IInv /\ Reckoned
  OBVIOUS
<1>1. /\ obj = [k \in Keys |-> [version |-> 0, method |-> 1, kind |-> "good"]]
      /\ backups = [k \in Keys |-> {}] /\ method = 1 /\ late = {}
      /\ up = "down" /\ pc = "down" /\ tally = Zero
  BY DEF NoRefresh
<1>2. method \in 1 .. MaxMethod
  BY <1>1, ResultStoreAssumption
<1>3. [version |-> 0, method |-> 1, kind |-> "good"] \in Content
  <2>1. 0 \in 0 .. MaxVersion /\ 1 \in 0 .. MaxMethod /\ "good" \in Kinds
    BY ResultStoreAssumption DEF Kinds
  <2> QED BY <2>1 DEF Content
<1>4. StoreTyped
  <2>1. obj \in [Keys -> Content \cup {Absent}] /\ \A k \in Keys : obj[k].method = 1
    BY <1>1, <1>3
  <2> QED BY <1>1, <1>2, <2>1 DEF StoreTyped
<1>5. IInv
  BY <1>1, <1>4 DEF IInv, Held, Awaited, Carrying
<1>6. Reckoned
  BY <1>1 DEF Reckoned, Books, Pass, Zero, Tallies, Passing, Calling, Carrying, Gap
<1> QED BY <1>5, <1>6

\* The same of the server, whether or not it refreshes.  And exitWhenIdle tells it to
\* stop only while no accepted run is unfinished and no callback is being sent, in any
\* order of requests, jobs, passes and ticks; what comes after that is not spared.
THEOREM BehindServer == ServerSpec => []StatusHonest /\ NeverDecidesBusy
<1>1. ServerInit => IInv /\ Reckoned
  BY InvInit, ReckonInit, AwayInv DEF ServerInit
<1>2. [ServerNext]_<<vars, refreshVars, side>> => [RefreshNext]_refreshVars /\ [Next]_vars
  BY DEF ServerNext, Lives, Refreshes
<1>3. IInv /\ Reckoned /\ [RefreshNext]_refreshVars => IInv' /\ Reckoned'
  BY InvNext, ReckonNext DEF Kept
<1>4. Reckoned => StatusHonest
  BY DEF Reckoned, Books, Pass, StatusHonest, Gap, Seen, Passing
<1> QED BY <1>1, <1>2, <1>3, <1>4, DecisionStep, PTL DEF ServerSpec, NeverDecidesBusy
=============================================================================
