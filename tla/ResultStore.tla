---------------------------- MODULE ResultStore ----------------------------
(***************************************************************************)
(* What the saved-AI refresh promises of the bucket (CLOUD_SETUP.md,       *)
(* Automatic AI reanalysis): a saved result changes by the application's   *)
(* hand only, but for its method stamp, and it is restamped only when a    *)
(* copy of exactly what is there has been kept.  Nothing brings a deleted  *)
(* result back.                                                            *)
(***************************************************************************)
EXTENDS Naturals

CONSTANTS
    Keys,
    Edited,     \* those whose result the application rewrites, in any kind; a bound
    MaxVersion, MaxMethod

ASSUME ResultStoreAssumption ==
    Edited \subseteq Keys /\ MaxVersion \in Nat /\ MaxMethod \in Nat \ {0}

VARIABLES
    obj,      \* result.json of each run
    backups   \* the copies under its ai-revisions

storeVars == <<obj, backups>>

\* good: every source is in it; unusable: some are not; huge: more than 50 MiB.
\* method 0: no AI report at all.  version counts the application's writes.
Kinds   == {"good", "unusable", "huge"}
Content == [version : 0 .. MaxVersion, method : 0 .. MaxMethod, kind : Kinds]
Absent  == [version |-> 0, method |-> 0, kind |-> "absent"]

KindsOf(k) == IF k \in Edited THEN Kinds ELSE {"good"}

Restamped(c, m) == [c EXCEPT !.method = m]
Rewritten(c, kind) == [version |-> c.version + 1, method |-> c.method, kind |-> kind]

AppUpdates(k) ==
    /\ k \in Edited /\ obj[k] # Absent /\ obj[k].version < MaxVersion
    /\ \E kind \in Kinds : obj' = [obj EXCEPT ![k] = Rewritten(@, kind)]
    /\ UNCHANGED backups

\* The application removes a run's objects.
AppDeletes(k) ==
    /\ obj[k] # Absent
    /\ obj' = [obj EXCEPT ![k] = Absent]
    /\ backups' = [backups EXCEPT ![k] = {}]

Keep(k) ==
    /\ \E c \in Content : backups' = [backups EXCEPT ![k] = @ \cup {c}]
    /\ UNCHANGED obj

Restamp(k) ==
    /\ obj[k] # Absent /\ obj[k] \in backups[k]
    /\ \E m \in 1 .. MaxMethod : obj' = [obj EXCEPT ![k] = Restamped(@, m)]
    /\ UNCHANGED backups

StoreInit ==
    /\ obj \in [Keys -> {c \in Content : c.version = 0 /\ c.method < MaxMethod}]
    /\ \A k \in Keys : obj[k].kind \in KindsOf(k)
    /\ backups = [k \in Keys |-> {}]

StoreNext == \E k \in Keys : AppUpdates(k) \/ AppDeletes(k) \/ Keep(k) \/ Restamp(k)

StoreSpec == StoreInit /\ [][StoreNext]_storeVars
=============================================================================
