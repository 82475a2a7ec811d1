------------------------------ MODULE ServerLife ------------------------------
(***************************************************************************)
(* One server program from start to stop, over and over: its configuration *)
(* (server/src/config.rs), its certificate (setup_tls), and shutdown. The  *)
(* certificate and its key are all it writes to disk; a stop at any moment *)
(* loses everything else. Clients know a server by the fingerprint of its  *)
(* certificate (PinnedCertVerifier in the client).                         *)
(*                                                                         *)
(* A file holds all of what was written to it or, when the program stops   *)
(* inside fs::write, which empties the file first, only part of it.        *)
(***************************************************************************)
EXTENDS Naturals

CONSTANTS
    Path,      \* files for certificates and keys
    Commands,  \* ways to start it: options given, and settings of the TOML file
    Client,
    MaxStart,  \* bound: starts
    MaxRemove  \* bound: files removed by hand

None == "none"

\* The settings that validate checks one by one; of a value only its being in
\* range is kept.
Ranged == {"bitrate", "max_room_size", "jitter_depth", "vad_threshold",
           "cleanup_interval_secs", "max_display_name", "max_room_code",
           "signal_rate", "signal_burst", "connect_rate_per_ip", "connect_burst_per_ip"}

\* The names of files have options, the two limits on lengths have none.
OptionFor == (Ranged \ {"max_display_name", "max_room_code"}) \cup {"cert_file", "key_file"}

ASSUME ServerConstants ==
    /\ None \notin Path
    /\ \A cmd \in Commands :
          /\ DOMAIN cmd.cli \subseteq OptionFor
          /\ DOMAIN cmd.file \subseteq Ranged \cup {"cert_file", "key_file"}
          /\ \A x \in {"cert_file", "key_file"} :
                /\ x \in DOMAIN cmd.cli => cmd.cli[x] \in Path
                /\ x \in DOMAIN cmd.file => cmd.file[x] \in Path
    /\ MaxStart \in Nat /\ MaxRemove \in Nat

VARIABLES
    disk,       \* what each file holds
    pc,         \* where main is
    config,     \* the configuration of the last start
    pair,       \* the certificate in memory: the number of its key pair
    next_pair,  \* rcgen::KeyPair::generate never gives the same pair twice
    exit,       \* why main returned last
    starts, removed,
    clients,    \* the clients in some room
    pin,        \* the fingerprint each client has been given, 0 for none
    to_notify,  \* clients the loop of shutdown has yet to come to
    notified,   \* clients to whom the notice has been pushed
    pinned,     \* history: the pair announced for two files, 0 for none
    steady      \* history: clients in a room from Ctrl+C on

disk_vars == <<disk, removed>>
run_vars == <<config, pair, next_pair, starts>>
client_vars == <<clients, pin, to_notify, notified, steady>>
vars == <<disk_vars, run_vars, client_vars, pc, exit, pinned>>

Absent == [type |-> "absent"]
Part == [type |-> "part"]
Cert(p) == [type |-> "cert", pair |-> p]
Key(p) == [type |-> "key", pair |-> p]

Content ==
    {Absent, Part} \cup {Cert(p) : p \in 1..MaxStart} \cup {Key(p) : p \in 1..MaxStart}

Default == [f \in Ranged \cup {"cert_file", "key_file"} |->
              IF f \in Ranged THEN "in range" ELSE None]

Starting == {"tls", "save_cert", "write_cert", "save_key", "write_key", "bind"}
Stopping == {"notify", "close"}

TypeOK ==
    /\ disk \in [Path -> Content]
    /\ pc \in {"down", "load", "serve"} \cup Starting \cup Stopping
    /\ pc \in Starting \cup {"serve"} \cup Stopping =>
          \A f \in Ranged : config[f] = "in range"
    /\ pair \in 0..MaxStart /\ next_pair \in 1..(MaxStart + 1)
    /\ exit \in {"none", "config", "tls", "io", "bind", "stopped", "done"}
    /\ starts \in 0..MaxStart /\ removed \in 0..MaxRemove
    /\ clients \subseteq Client /\ pin \in [Client -> 0..MaxStart]
    /\ (clients # {} => pc \in {"serve"} \cup Stopping)
    /\ to_notify \subseteq Client /\ notified \subseteq Client /\ steady \subseteq clients
    /\ pinned \in [Path \X Path -> 0..MaxStart]

Init ==
    /\ disk = [x \in Path |-> Absent] /\ removed = 0
    /\ pc = "down" /\ exit = "none"
    /\ config = Default /\ pair = 0 /\ next_pair = 1 /\ starts = 0
    /\ clients = {} /\ pin = [c \in Client |-> 0]
    /\ to_notify = {} /\ notified = {} /\ steady = {}
    /\ pinned = [files \in Path \X Path |-> 0]

Go(from, to) == pc = from /\ pc' = to /\ UNCHANGED exit

\* main returns, or the process ends: what it held in memory is gone.
Ends(why) ==
    /\ pc' = "down" /\ exit' = why
    /\ clients' = {} /\ to_notify' = {} /\ notified' = {} /\ steady' = {}
    /\ UNCHANGED <<disk_vars, run_vars, pin, pinned>>

-----------------------------------------------------------------------------
(* Configuration. *)

\* ServerConfig::load: options over the file over the defaults, one by one.
Merged(cmd) ==
    [f \in DOMAIN Default |->
        IF f \in DOMAIN cmd.cli THEN cmd.cli[f]
        ELSE IF f \in DOMAIN cmd.file THEN cmd.file[f] ELSE Default[f]]

Files == <<config["cert_file"], config["key_file"]>>
HasFiles == config["cert_file"] # None /\ config["key_file"] # None

\* Mutant of Valid: what only the file can set is not checked.
ValidOptions(settings) ==
    /\ \A f \in OptionFor \cap Ranged : settings[f] = "in range"
    /\ (settings["cert_file"] = None) = (settings["key_file"] = None)

Valid(settings) ==
    /\ \A f \in Ranged : settings[f] = "in range"
    /\ (settings["cert_file"] = None) = (settings["key_file"] = None)

Start(cmd) ==
    /\ starts < MaxStart
    /\ Go("down", "load")
    /\ starts' = starts + 1
    /\ config' = Merged(cmd)
    /\ UNCHANGED <<disk_vars, pair, next_pair, client_vars, pinned>>

Validate ==
    /\ Valid(config) /\ Go("load", "tls")
    /\ UNCHANGED <<disk_vars, run_vars, client_vars, pinned>>

\* validate refuses; or the file of a good command cannot be read or parsed.
RefuseConfig == pc = "load" /\ Ends("config")

-----------------------------------------------------------------------------
(* The certificate: setup_tls. *)

OnDisk == HasFiles /\ \A k \in 1..2 : disk[Files[k]] # Absent

\* What is read from the two files is a certificate and the key to it.
Readable(p) == disk[Files[1]] = Cert(p) /\ disk[Files[2]] = Key(p)

LoadPair ==
    /\ OnDisk /\ Go("tls", "bind")
    /\ \E p \in 1..MaxStart : Readable(p) /\ pair' = p
    /\ UNCHANGED <<disk_vars, config, next_pair, starts, client_vars, pinned>>

\* No certificate, no key, or a key that rustls finds not to be that of the
\* certificate: only then. That a file is there and cannot be read, which ends
\* the start in the same way, is left out.
RefusePair ==
    /\ pc = "tls" /\ OnDisk
    /\ ~(\E p \in 1..MaxStart : Readable(p))
    /\ Ends("tls")

GeneratePair ==
    /\ ~OnDisk /\ Go("tls", IF HasFiles THEN "save_cert" ELSE "bind")
    /\ pair' = next_pair /\ next_pair' = next_pair + 1
    /\ UNCHANGED <<disk_vars, config, starts, client_vars, pinned>>

\* fs::write empties the file. Other pairs that used it are no longer theirs.
Empty(from, to, x) ==
    /\ Go(from, to)
    /\ disk' = [disk EXCEPT ![x] = Part]
    /\ pinned' = [files \in Path \X Path |->
                    IF files # Files /\ x \in {files[1], files[2]} THEN 0 ELSE pinned[files]]
    /\ UNCHANGED <<removed, run_vars, client_vars>>

Fill(from, to, x, content) ==
    /\ Go(from, to)
    /\ disk' = [disk EXCEPT ![x] = content]
    /\ UNCHANGED <<removed, run_vars, client_vars, pinned>>

EmptyCert == Empty("save_cert", "write_cert", Files[1])
WriteCert == Fill("write_cert", "save_key", Files[1], Cert(pair))
EmptyKey == Empty("save_key", "write_key", Files[2])

\* Mutant of WriteKey: the certificate is written to both files.
WriteKeySwapped == Fill("write_key", "bind", Files[2], Cert(pair))

WriteKey == Fill("write_key", "bind", Files[2], Key(pair))

WriteFails == pc \in {"save_cert", "write_cert", "save_key", "write_key"} /\ Ends("io")

\* The endpoint is bound and the fingerprint printed.
Serve ==
    /\ Go("bind", "serve")
    /\ pinned' = IF HasFiles /\ pinned[Files] = 0 THEN [pinned EXCEPT ![Files] = pair]
                 ELSE pinned
    /\ UNCHANGED <<disk_vars, run_vars, client_vars>>

BindFails == pc = "bind" /\ Ends("bind")

-----------------------------------------------------------------------------
(* Clients. Handlers that are past the handshake go on during shutdown.    *)

\* A user copies the fingerprint that the server prints.
CopyPin(c) ==
    /\ pc = "serve"
    /\ pin' = [pin EXCEPT ![c] = pair]
    /\ UNCHANGED <<disk_vars, run_vars, clients, to_notify, notified, steady, pc, exit, pinned>>

\* verify_server_cert; the rest of a join is in RoomMembership. The loop of
\* shutdown may or may not come to a client that joins meanwhile.
Join(c) ==
    /\ pc \in {"serve", "notify"} /\ c \notin clients /\ c \notin notified
    /\ pin[c] = pair
    /\ clients' = clients \cup {c}
    /\ to_notify' \in IF pc = "notify" THEN {to_notify, to_notify \cup {c}} ELSE {to_notify}
    /\ UNCHANGED <<disk_vars, run_vars, pin, notified, steady, pc, exit, pinned>>

Leave(c) ==
    /\ c \in clients
    /\ clients' = clients \ {c} /\ steady' = steady \ {c}
    /\ to_notify' = to_notify \ {c}
    /\ UNCHANGED <<disk_vars, run_vars, pin, notified, pc, exit, pinned>>

-----------------------------------------------------------------------------
(* Shutdown. *)

CtrlC ==
    /\ Go("serve", "notify")
    /\ to_notify' = clients /\ steady' = clients
    /\ UNCHANGED <<disk_vars, run_vars, clients, pin, notified, pinned>>

\* Mutant of Notify: the loop stops with the first client.
NotifyOne(c) ==
    /\ pc = "notify" /\ c \in to_notify
    /\ to_notify' = {} /\ notified' = notified \cup {c}
    /\ UNCHANGED <<disk_vars, run_vars, clients, pin, steady, pc, exit, pinned>>

Notify(c) ==
    /\ pc = "notify" /\ c \in to_notify
    /\ to_notify' = to_notify \ {c} /\ notified' = notified \cup {c}
    /\ UNCHANGED <<disk_vars, run_vars, clients, pin, steady, pc, exit, pinned>>

\* The notices have 100 ms, then the endpoint closes every connection.
Close ==
    /\ to_notify = {} /\ Go("notify", "close")
    /\ UNCHANGED <<disk_vars, run_vars, client_vars, pinned>>

Down == pc = "close" /\ Ends("done")

-----------------------------------------------------------------------------
\* A crash, a kill, or Ctrl+C before the signal is waited for.
Crash == pc # "down" /\ Ends("stopped")

\* By hand, while the server is not starting.
Remove(x) ==
    /\ removed < MaxRemove /\ disk[x] # Absent
    /\ pc \in {"down", "serve"}
    /\ removed' = removed + 1
    /\ disk' = [disk EXCEPT ![x] = Absent]
    /\ pinned' = [files \in Path \X Path |->
                    IF x \in {files[1], files[2]} THEN 0 ELSE pinned[files]]
    /\ UNCHANGED <<run_vars, client_vars, pc, exit>>

Next ==
    \/ \E cmd \in Commands : Start(cmd)
    \/ Validate \/ RefuseConfig
    \/ LoadPair \/ RefusePair \/ GeneratePair
    \/ EmptyCert \/ WriteCert \/ EmptyKey \/ WriteKey \/ WriteFails
    \/ Serve \/ BindFails \/ CtrlC \/ Close \/ Down \/ Crash
    \/ \E c \in Client : CopyPin(c) \/ Join(c) \/ Leave(c) \/ Notify(c)
    \/ \E x \in Path : Remove(x)

Spec == Init /\ [][Next]_vars

-----------------------------------------------------------------------------
(* Properties. *)

\* The fingerprint announced for two files (one file for both is never loaded
\* again) stays what it was, and the server does not fail to load them, at every
\* later start with these files, wherever earlier runs stopped; until somebody
\* removes one of them, or a run with one of them and another file writes it.
PinStable ==
    HasFiles /\ Files[1] # Files[2] /\ pinned[Files] # 0 =>
        /\ pc = "serve" => pair = pinned[Files]
        /\ ~(pc = "down" /\ exit = "tls")

\* Every client that is in a room from Ctrl+C to the close has been sent the
\* notice, whoever joins and leaves while the rooms are gone through.
ShutdownNotifies == pc = "close" => steady \subseteq notified

-----------------------------------------------------------------------------
(* What the documentation and the comments say, and the code does not do.  *)

\* server/src/tls.rs:16: "If they are `Some` but missing, a new self-signed
\* pair is generated and saved to those paths." Nothing but a file removed or
\* shared keeps a server from starting with its files.
FilesAlwaysLoad == exit # "tls"

\* README.md:55: "it sends a shutdown notice to all connected clients".
AllAreNotified == pc = "close" => clients \subseteq notified
=============================================================================
