----------------------------- MODULE HostRecords -----------------------------
(***************************************************************************)
(* Host records in SQLite and the secrets they refer to in the credential  *)
(* store of the operating system: save_host, save_host_password,           *)
(* save_tailscale_auth_key, delete_host, and the reads of connect_host and *)
(* prepare_host_network.                                                   *)
(*                                                                         *)
(* The two stores share no transaction.  Commands that are not async run   *)
(* one at a time on the main thread; delete_host and the reads are async   *)
(* and interleave with them between any two uses of a store.  A write to   *)
(* either store may fail, and the process may end at any point.            *)
(***************************************************************************)
EXTENDS Naturals, FiniteSets

CONSTANTS
    Hosts,
    Payloads,   \* what the renderer may send to save_host
    MaxSaves    \* bound on credentials saved

AuthenticationMode == {"Password", "PublicKey", "SshAgent", "KeyboardInteractive"}
Slots == {"auth", "tailscale"}

\* What serde makes of the renderer's record; its references may be anything.
IsRecord(p) ==
    /\ p.mode \in AuthenticationMode
    /\ p.tailscale.set \in BOOLEAN
    /\ p.jump.set \in BOOLEAN
    /\ p.jump.mode \in AuthenticationMode \cup {"none"}
    /\ p = [mode |-> p.mode, auth |-> p.auth,
            tailscale |-> [set |-> p.tailscale.set, ref |-> p.tailscale.ref],
            jump |-> [set |-> p.jump.set, mode |-> p.jump.mode, ref |-> p.jump.ref]]

ASSUME HostRecordsAssumption ==
    /\ MaxSaves \in Nat
    /\ \A p \in Payloads : IsRecord(p)

VARIABLES
    hosts,      \* the table hosts
    runs,       \* hosts with rows in the table runs
    secrets,    \* the credential store, by reference
    main,       \* the command on the main thread
    del,        \* delete_host
    reader,     \* the command that is reading a credential
    used,       \* the credential read last, and what for
    committed,  \* history: the secret each reference was last saved with
    saves,      \* number of credentials saved so far
    raced,      \* history: hosts saved and deleted by overlapping commands
    lost,       \* history: references on which a best-effort operation failed
    crashed     \* history: hosts whose command ended with the process

tables == <<hosts, runs>>
excuses == <<raced, lost, crashed>>
vars == <<tables, secrets, main, del, reader, used, committed, saves, excuses>>


\* A reference of this platform names what it is for and its host; a database
\* that was moved here may hold references of another platform.
NoRef == [kind |-> "none", host |-> "none"]
ForeignRef == [kind |-> "foreign", host |-> "none"]
Refs == [kind : {"ssh-password", "ssh-key-passphrase", "tailscale-auth"}, host : Hosts]
is_managed_reference(r) == r.kind \notin {"none", "foreign"}

NoHost == [mode |-> "none"]
NoConfig == [set |-> FALSE, ref |-> NoRef]
NoJump == [set |-> FALSE, mode |-> "none", ref |-> NoRef]
NoSecret == [n |-> 0, kind |-> "none", host |-> "none"]
NoUse == [host |-> "none", kind |-> "none", secret |-> NoSecret]
Idle == [pc |-> "idle"]

\* The kind of credential a mode is saved with; others take none.
credential_kind(mode) ==
    CASE mode = "Password" -> "ssh-password"
      [] mode = "PublicKey" -> "ssh-key-passphrase"
      [] OTHER -> "none"

HostRefs(record) ==
    IF record = NoHost THEN {}
    ELSE {r \in {record.auth, record.tailscale.ref, record.jump.ref} : is_managed_reference(r)}

Busy(actor, h) == actor.pc # "idle" /\ actor.host = h

Init ==
    /\ hosts \in [Hosts -> {NoHost, [mode |-> "Password", auth |-> ForeignRef,
                                     tailscale |-> NoConfig, jump |-> NoJump]}]
    /\ runs = {}
    /\ secrets = [r \in Refs |-> NoSecret]
    /\ main = Idle /\ del = Idle /\ reader = Idle
    /\ used = NoUse
    /\ committed = [r \in Refs |-> NoSecret]
    /\ saves = 0
    /\ raced = {} /\ lost = {} /\ crashed = {}

-----------------------------------------------------------------------------
(* save_host *)

\* Mutant: references of a new host are taken from the renderer.
PreservedTrusts(old, payload) ==
    IF old = NoHost THEN payload
    ELSE [payload EXCEPT
            !.auth = IF old.mode = payload.mode THEN old.auth ELSE NoRef,
            !.tailscale.ref = IF payload.tailscale.set THEN old.tailscale.ref ELSE NoRef,
            !.jump.ref = IF payload.jump.set /\ old.jump.mode = payload.jump.mode
                         THEN old.jump.ref ELSE NoRef]

\* Mutant: the reference survives a change of mode.
PreservedMutant(old, payload) ==
    IF old = NoHost
    THEN [payload EXCEPT !.auth = NoRef, !.tailscale.ref = NoRef, !.jump.ref = NoRef]
    ELSE [payload EXCEPT
            !.auth = old.auth,
            !.tailscale.ref = IF payload.tailscale.set THEN old.tailscale.ref ELSE NoRef,
            !.jump.ref = IF payload.jump.set /\ old.jump.mode = payload.jump.mode
                         THEN old.jump.ref ELSE NoRef]

\* References are never taken from the renderer.  Those of the record stay, an
\* SSH credential only under the mode it was saved for.
Preserved(old, payload) ==
    IF old = NoHost
    THEN [payload EXCEPT !.auth = NoRef, !.tailscale.ref = NoRef, !.jump.ref = NoRef]
    ELSE [payload EXCEPT
            !.auth = IF old.mode = payload.mode THEN old.auth ELSE NoRef,
            !.tailscale.ref = IF payload.tailscale.set THEN old.tailscale.ref ELSE NoRef,
            !.jump.ref = IF payload.jump.set /\ old.jump.mode = payload.jump.mode
                         THEN old.jump.ref ELSE NoRef]

SaveHost(h, payload) ==
    /\ main = Idle
    /\ LET new == Preserved(hosts[h], payload) IN
       main' = [pc |-> "upsert", host |-> h, new |-> new, ref |-> NoRef, secret |-> NoSecret,
                previous |-> NoSecret, drop |-> HostRefs(hosts[h]) \ HostRefs(new)]
    /\ raced' = IF Busy(del, h) THEN raced \cup {h} ELSE raced
    /\ UNCHANGED <<tables, secrets, del, reader, used, committed, saves, lost, crashed>>

-----------------------------------------------------------------------------
(* save_host_password and save_tailscale_auth_key *)

\* The record is loaded, not taken from the renderer.
StartSave(h, kind, new) ==
    LET ref == [kind |-> kind, host |-> h] IN
    /\ main = Idle
    /\ saves < MaxSaves
    /\ main' = [pc |-> IF ref \in HostRefs(hosts[h]) THEN "backup" ELSE "put",
                host |-> h, new |-> new, ref |-> ref,
                secret |-> [n |-> saves + 1, kind |-> kind, host |-> h],
                previous |-> NoSecret, drop |-> HostRefs(hosts[h]) \ HostRefs(new)]
    /\ saves' = saves + 1
    /\ raced' = IF Busy(del, h) THEN raced \cup {h} ELSE raced
    /\ UNCHANGED <<tables, secrets, del, reader, used, committed, lost, crashed>>

save_host_password(h) ==
    /\ hosts[h] # NoHost
    /\ LET kind == credential_kind(hosts[h].mode) IN
       /\ kind # "none"
       /\ StartSave(h, kind, [hosts[h] EXCEPT !.auth = [kind |-> kind, host |-> h]])

\* A host without a tailnet gets one.
save_tailscale_auth_key(h) ==
    /\ hosts[h] # NoHost
    /\ StartSave(h, "tailscale-auth",
                 [hosts[h] EXCEPT !.tailscale = [set |-> TRUE,
                                                 ref |-> [kind |-> "tailscale-auth", host |-> h]]])

\* A record that has the reference already: its secret is kept until the
\* database has the new record.  Reading it may fail.
Backup ==
    /\ main.pc = "backup"
    /\ \/ /\ main' = [main EXCEPT !.pc = "put",
                                       !.previous = secrets[main.ref]]
          /\ UNCHANGED lost
       \/ /\ main' = [main EXCEPT !.pc = "put"]
          /\ lost' = lost \cup {main.ref}
    /\ UNCHANGED <<tables, secrets, del, reader, used, committed, saves, raced, crashed>>

Put ==
    /\ main.pc = "put"
    /\ \/ /\ secrets' = [secrets EXCEPT ![main.ref] = main.secret]
          /\ main' = [main EXCEPT !.pc = "upsert"]
       \/ /\ main' = Idle
          /\ UNCHANGED secrets
    /\ UNCHANGED <<tables, del, reader, used, committed, saves, excuses>>

\* The insert or update of the row and its addresses, in one transaction.
Upsert ==
    /\ main.pc = "upsert"
    /\ hosts' = [hosts EXCEPT ![main.host] = main.new]
    /\ committed' = [r \in Refs |-> IF r = main.ref THEN main.secret
                                    ELSE IF r \in main.drop THEN NoSecret
                                    ELSE committed[r]]
    /\ main' = IF main.drop = {} THEN Idle ELSE [main EXCEPT !.pc = "cleanup"]
    /\ UNCHANGED <<runs, secrets, del, reader, used, saves, excuses>>

UpsertFails ==
    /\ main.pc = "upsert"
    /\ main' = IF main.ref = NoRef THEN Idle ELSE [main EXCEPT !.pc = "rollback"]
    /\ UNCHANGED <<tables, secrets, del, reader, used, committed, saves, excuses>>

\* Mutant: a failed save deletes the secret it replaced.
RollbackMutant ==
    /\ main.pc = "rollback"
    /\ main' = Idle
    /\ secrets' = [secrets EXCEPT ![main.ref] = NoSecret]
    /\ UNCHANGED <<tables, del, reader, used, committed, saves, excuses>>

\* Mutant: a failed save leaves a new secret behind.
RollbackLeaves ==
    /\ main.pc = "rollback"
    /\ main' = Idle
    /\ secrets' = IF main.previous = NoSecret THEN secrets
                  ELSE [secrets EXCEPT ![main.ref] = main.previous]
    /\ UNCHANGED <<tables, del, reader, used, committed, saves, excuses>>

\* The old secret is put back, or the new one deleted.
Rollback ==
    /\ main.pc = "rollback"
    /\ main' = Idle
    /\ \/ secrets' = [secrets EXCEPT ![main.ref] = main.previous] /\ UNCHANGED lost
       \/ lost' = lost \cup {main.ref} /\ UNCHANGED secrets
    /\ UNCHANGED <<tables, del, reader, used, committed, saves, raced, crashed>>

\* A secret the record no longer refers to is deleted, if the store lets us.
Forget(r) ==
    \/ secrets' = [secrets EXCEPT ![r] = NoSecret] /\ UNCHANGED lost
    \/ lost' = lost \cup {r} /\ UNCHANGED secrets

AfterCleanup(actor, r) ==
    IF actor.drop = {r} THEN Idle ELSE [actor EXCEPT !.drop = actor.drop \ {r}]

Cleanup ==
    /\ main.pc = "cleanup"
    /\ \E r \in main.drop : Forget(r) /\ main' = AfterCleanup(main, r)
    /\ UNCHANGED <<tables, del, reader, used, committed, saves, raced, crashed>>

-----------------------------------------------------------------------------
(* delete_host *)

\* A host with runs is not deleted.  Then its session is closed, which is
\* awaited without a lock.
DeleteHost(h) ==
    /\ del = Idle
    /\ h \notin runs
    /\ del' = [pc |-> "delete", host |-> h, drop |-> HostRefs(hosts[h])]
    /\ raced' = IF Busy(main, h) THEN raced \cup {h} ELSE raced
    /\ UNCHANGED <<tables, secrets, main, reader, used, committed, saves, lost, crashed>>

\* The row goes, and its rows in other tables with it.
DeleteRow ==
    /\ del.pc = "delete"
    /\ hosts' = [hosts EXCEPT ![del.host] = NoHost]
    /\ runs' = runs \ {del.host}
    /\ committed' = [r \in Refs |-> IF r.host = del.host THEN NoSecret ELSE committed[r]]
    /\ del' = IF hosts[del.host] = NoHost \/ del.drop = {} THEN Idle
              ELSE [del EXCEPT !.pc = "cleanup"]
    /\ UNCHANGED <<secrets, main, reader, used, saves, excuses>>

DeleteRowFails ==
    /\ del.pc = "delete"
    /\ del' = Idle
    /\ UNCHANGED <<tables, secrets, main, reader, used, committed, saves, excuses>>

DeleteCleanup ==
    /\ del.pc = "cleanup"
    /\ \E r \in del.drop : Forget(r) /\ del' = AfterCleanup(del, r)
    /\ UNCHANGED <<tables, main, reader, used, committed, saves, raced, crashed>>

\* run_action inserts a row for a host that exists, also for one that is being
\* deleted, with which it goes.
CreateRun(h) ==
    /\ hosts[h] # NoHost
    /\ h \notin runs
    /\ runs' = runs \cup {h}
    /\ UNCHANGED <<hosts, secrets, main, del, reader, used, committed, saves, excuses>>

-----------------------------------------------------------------------------
(* connect_host and prepare_host_network *)

\* The record is read, and later the secret it refers to.
ReadRecord(h, slot) ==
    /\ reader = Idle
    /\ hosts[h] # NoHost
    /\ LET ref == IF slot = "auth" THEN hosts[h].auth ELSE hosts[h].tailscale.ref IN
       /\ is_managed_reference(ref)
       /\ reader' = [pc |-> "get", host |-> h, ref |-> ref,
                     kind |-> IF slot = "auth" THEN credential_kind(hosts[h].mode)
                              ELSE "tailscale-auth"]
    /\ used' = NoUse
    /\ UNCHANGED <<tables, secrets, main, del, committed, saves, excuses>>

\* Mutant: the use follows the record as it is now.
GetSecretMutant ==
    /\ reader.pc = "get"
    /\ reader' = Idle
    /\ used' = IF secrets[reader.ref] = NoSecret THEN NoUse
               ELSE [host |-> reader.host, secret |-> secrets[reader.ref],
                     kind |-> IF reader.kind = "tailscale-auth" THEN reader.kind
                              ELSE credential_kind(hosts[reader.host].mode)]
    /\ UNCHANGED <<tables, secrets, main, del, committed, saves, excuses>>

\* resolve_auth_methods: without the secret the user is asked for it.
GetSecret ==
    /\ reader.pc = "get"
    /\ reader' = Idle
    /\ used' = IF secrets[reader.ref] = NoSecret THEN NoUse
               ELSE [host |-> reader.host, kind |-> reader.kind, secret |-> secrets[reader.ref]]
    /\ UNCHANGED <<tables, secrets, main, del, committed, saves, excuses>>

-----------------------------------------------------------------------------
\* The process ends; both stores stay as they are.
Crash ==
    /\ main # Idle \/ del # Idle \/ reader # Idle
    /\ crashed' = crashed \cup {h \in Hosts : Busy(main, h) \/ Busy(del, h)}
    /\ main' = Idle /\ del' = Idle /\ reader' = Idle
    /\ used' = NoUse
    /\ UNCHANGED <<tables, secrets, committed, saves, raced, lost>>

MainStep ==
    \/ \E h \in Hosts, payload \in Payloads : SaveHost(h, payload)
    \/ \E h \in Hosts : save_host_password(h) \/ save_tailscale_auth_key(h)
    \/ Backup \/ Put \/ Upsert \/ UpsertFails \/ Rollback \/ Cleanup

DeleteStep ==
    \/ \E h \in Hosts : DeleteHost(h)
    \/ DeleteRow \/ DeleteRowFails \/ DeleteCleanup

OtherStep ==
    \/ \E h \in Hosts : CreateRun(h)
    \/ \E h \in Hosts, slot \in Slots : ReadRecord(h, slot)
    \/ GetSecret
    \/ Crash

Next == MainStep \/ DeleteStep \/ OtherStep

Spec == Init /\ [][Next]_vars

-----------------------------------------------------------------------------
(* Properties *)

Secrets == {NoSecret} \cup [n : 1 .. MaxSaves,
                            kind : {"ssh-password", "ssh-key-passphrase", "tailscale-auth"},
                            host : Hosts]

\* Every variable keeps its type.
TypeOK ==
    /\ \A h \in Hosts : hosts[h] # NoHost =>
        /\ hosts[h].mode \in AuthenticationMode
        /\ {hosts[h].auth, hosts[h].tailscale.ref, hosts[h].jump.ref} \subseteq
               {NoRef, ForeignRef} \cup Refs
    /\ secrets \in [Refs -> Secrets]
    /\ committed \in [Refs -> Secrets]
    /\ runs \subseteq Hosts
    /\ saves \in 0 .. MaxSaves

\* Whatever the renderer sends, a record refers only to secrets of that very
\* host and, for SSH, of its present mode.
ReferencesStayHome ==
    \A h \in Hosts : \A r \in HostRefs(hosts[h]) :
        /\ r.host = h
        /\ r = hosts[h].auth => r.kind = credential_kind(hosts[h].mode)

\* A connection authenticates only with a secret that was saved for that host
\* and for that use, also when the record or the secret changes between the
\* two reads: a saved password is never sent as a passphrase.
SecretFitsUse == used # NoUse => used.secret.kind = used.kind /\ used.secret.host = used.host

\* What may leave the two stores apart: a command that ended with the process,
\* a save that overlapped a deletion, and an operation that is best effort.
Undisturbed(r) ==
    /\ ~Busy(main, r.host) /\ ~Busy(del, r.host)
    /\ r.host \notin raced \cup crashed
    /\ r \notin lost

\* Whatever fails in the database, a record that refers to a secret finds the
\* one that was saved for it last: a save that is rolled back leaves the old
\* secret usable.
ReferenceResolves ==
    \A r \in Refs : Undisturbed(r) /\ hosts[r.host] # NoHost /\ r \in HostRefs(hosts[r.host]) =>
        secrets[r] = committed[r] /\ secrets[r] # NoSecret

\* No secret is left in the credential store that no record refers to.
NoOrphanSecret ==
    \A r \in Refs : Undisturbed(r) /\ r \notin HostRefs(hosts[r.host]) => secrets[r] = NoSecret

\* The database and the credential store agree although no transaction spans
\* them: references belong to their host, resolve to what was saved last and
\* fit their use, and secrets without a reference are gone.
RecordsInv ==
    /\ TypeOK
    /\ ReferencesStayHome
    /\ SecretFitsUse
    /\ ReferenceResolves
    /\ NoOrphanSecret
=============================================================================
