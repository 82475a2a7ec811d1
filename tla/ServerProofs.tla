----------------------------- MODULE ServerProofs -----------------------------
(***************************************************************************)
(* The server program, for any files, ways to start it, clients and        *)
(* moments of crashes: settings are checked before use, what clients have  *)
(* pinned stays, and shutdown reaches who was there. And its accept loop,  *)
(* for any rate, capacity, cleanup interval and set of addresses: it       *)
(* implements a limiter without a table, and no window of time sees more   *)
(* connections than a burst and the rate.                                  *)
(***************************************************************************)
EXTENDS ServerLife, AcceptLoop, TLAPS

Saving == {"save_cert", "write_cert", "save_key", "write_key"}

-----------------------------------------------------------------------------
(* Types. *)

\* A start makes at most one pair, and has one when it goes on.
Counted ==
    /\ pair \in 0..MaxStart /\ next_pair \in 1..(MaxStart + 1) /\ starts \in 0..MaxStart
    /\ next_pair <= starts + 1
    /\ pc \in {"load", "tls"} => next_pair <= starts
    /\ pc \in Saving \cup {"bind", "serve"} => pair # 0

FilesNamed == {config["cert_file"], config["key_file"]} \subseteq Path \cup {None}

\* While files are written, there are two.
Saved == FilesNamed /\ (pc \in Saving => HasFiles)

Typed == TypeOK /\ Counted /\ Saved

\* Options, the TOML file and the defaults name files or none.
LEMMA MergedNames ==
  ASSUME NEW cmd \in Commands, NEW x \in {"cert_file", "key_file"}
  PROVE  Merged(cmd)[x] \in Path \cup {None}
  <1>1. x \notin Ranged
    BY DEF Ranged
  <1>2. Merged(cmd)[x] = IF x \in DOMAIN cmd.cli THEN cmd.cli[x]
                         ELSE IF x \in DOMAIN cmd.file THEN cmd.file[x] ELSE None
    BY <1>1 DEF Merged, Default
  <1>3. QED
    BY <1>2, ServerConstants

\* What can be told apart in a file.
LEMMA Contents ==
  /\ Absent \in Content /\ Part \in Content /\ Absent # Part
  /\ \A p \in 1..MaxStart : Cert(p) \in Content /\ Key(p) \in Content
  /\ \A p : Cert(p) \notin {Absent, Part} /\ Key(p) \notin {Absent, Part}
  /\ \A p, q : (Cert(p) = Cert(q) => p = q) /\ Cert(p) # Key(q)
  BY DEF Content, Absent, Part, Cert, Key

\* No start makes two pairs.
LEMMA CountedStep == Counted /\ [Next]_vars => Counted'
  <1> SUFFICES ASSUME Counted, [Next]_vars PROVE Counted'
    OBVIOUS
  <1> USE ServerConstants DEF Saving
  <1>1. ASSUME NEW cmd \in Commands, Start(cmd) PROVE Counted'
    BY <1>1 DEF Start, Go, Counted
  <1>2. CASE Validate
    BY <1>2 DEF Validate, Go, Counted, run_vars
  <1>3. CASE RefuseConfig
    BY <1>3 DEF RefuseConfig, Ends, Counted, run_vars
  <1>4. CASE LoadPair
    BY <1>4 DEF LoadPair, Go, Counted
  <1>5. CASE RefusePair
    BY <1>5 DEF RefusePair, Ends, Counted, run_vars
  <1>6. CASE GeneratePair
    BY <1>6 DEF GeneratePair, Go, Counted
  <1>7. CASE EmptyCert
    BY <1>7 DEF EmptyCert, Empty, Go, Counted, run_vars
  <1>8. CASE WriteCert
    BY <1>8 DEF WriteCert, Fill, Go, Counted, run_vars
  <1>9. CASE EmptyKey
    BY <1>9 DEF EmptyKey, Empty, Go, Counted, run_vars
  <1>10. CASE WriteKey
    BY <1>10 DEF WriteKey, Fill, Go, Counted, run_vars
  <1>11. CASE WriteFails
    BY <1>11 DEF WriteFails, Ends, Counted, run_vars
  <1>12. CASE Serve
    BY <1>12 DEF Serve, Go, Counted, run_vars
  <1>13. CASE BindFails
    BY <1>13 DEF BindFails, Ends, Counted, run_vars
  <1>14. CASE CtrlC
    BY <1>14 DEF CtrlC, Go, Counted, run_vars
  <1>15. CASE Close
    BY <1>15 DEF Close, Go, Counted, run_vars
  <1>16. CASE Down
    BY <1>16 DEF Down, Ends, Counted, run_vars
  <1>17. CASE Crash
    BY <1>17 DEF Crash, Ends, Counted, run_vars
  <1>18. ASSUME NEW c \in Client, CopyPin(c) PROVE Counted'
    BY <1>18 DEF CopyPin, Counted, run_vars
  <1>19. ASSUME NEW c \in Client, Join(c) PROVE Counted'
    BY <1>19 DEF Join, Counted, run_vars
  <1>20. ASSUME NEW c \in Client, Leave(c) PROVE Counted'
    BY <1>20 DEF Leave, Counted, run_vars
  <1>21. ASSUME NEW c \in Client, Notify(c) PROVE Counted'
    BY <1>21 DEF Notify, Counted, run_vars
  <1>22. ASSUME NEW x \in Path, Remove(x) PROVE Counted'
    BY <1>22 DEF Remove, Counted, run_vars
  <1>23. CASE UNCHANGED vars
    BY <1>23 DEF vars, Counted, run_vars
  <1>24. QED
    BY <1>1, <1>2, <1>3, <1>4, <1>5, <1>6, <1>7, <1>8, <1>9, <1>10, <1>11, <1>12,
       <1>13, <1>14, <1>15, <1>16, <1>17, <1>18, <1>19, <1>20, <1>21, <1>22, <1>23 DEF
       Next

\* Files are saved when there are names for both.
LEMMA SavedStep == Saved /\ [Next]_vars => Saved'
  <1> SUFFICES ASSUME Saved, [Next]_vars PROVE Saved'
    OBVIOUS
  <1> USE DEF Saving
  <1>1. ASSUME NEW cmd \in Commands, Start(cmd) PROVE Saved'
    <2>1. \A x \in {"cert_file", "key_file"} : config'[x] \in Path \cup {None}
      BY <1>1, MergedNames DEF Start
    <2>2. QED
      BY <1>1, <2>1 DEF Start, Go, Saved, FilesNamed
  <1>2. CASE Validate
    BY <1>2 DEF Validate, Go, Saved, FilesNamed, run_vars
  <1>3. CASE RefuseConfig
    BY <1>3 DEF RefuseConfig, Ends, Saved, FilesNamed, run_vars
  <1>4. CASE LoadPair
    BY <1>4 DEF LoadPair, Go, Saved, FilesNamed
  <1>5. CASE RefusePair
    BY <1>5 DEF RefusePair, Ends, Saved, FilesNamed, run_vars
  <1>6. CASE GeneratePair
    BY <1>6 DEF GeneratePair, Go, Saved, FilesNamed, HasFiles
  <1>7. CASE EmptyCert
    BY <1>7 DEF EmptyCert, Empty, Go, Saved, FilesNamed, HasFiles, run_vars
  <1>8. CASE WriteCert
    BY <1>8 DEF WriteCert, Fill, Go, Saved, FilesNamed, HasFiles, run_vars
  <1>9. CASE EmptyKey
    BY <1>9 DEF EmptyKey, Empty, Go, Saved, FilesNamed, HasFiles, run_vars
  <1>10. CASE WriteKey
    BY <1>10 DEF WriteKey, Fill, Go, Saved, FilesNamed, run_vars
  <1>11. CASE WriteFails
    BY <1>11 DEF WriteFails, Ends, Saved, FilesNamed, run_vars
  <1>12. CASE Serve
    BY <1>12 DEF Serve, Go, Saved, FilesNamed, run_vars
  <1>13. CASE BindFails
    BY <1>13 DEF BindFails, Ends, Saved, FilesNamed, run_vars
  <1>14. CASE CtrlC
    BY <1>14 DEF CtrlC, Go, Saved, FilesNamed, run_vars
  <1>15. CASE Close
    BY <1>15 DEF Close, Go, Saved, FilesNamed, run_vars
  <1>16. CASE Down
    BY <1>16 DEF Down, Ends, Saved, FilesNamed, run_vars
  <1>17. CASE Crash
    BY <1>17 DEF Crash, Ends, Saved, FilesNamed, run_vars
  <1>18. ASSUME NEW c \in Client, CopyPin(c) PROVE Saved'
    BY <1>18 DEF CopyPin, Saved, FilesNamed, run_vars
  <1>19. ASSUME NEW c \in Client, Join(c) PROVE Saved'
    BY <1>19 DEF Join, Saved, FilesNamed, run_vars
  <1>20. ASSUME NEW c \in Client, Leave(c) PROVE Saved'
    BY <1>20 DEF Leave, Saved, FilesNamed, HasFiles, run_vars
  <1>21. ASSUME NEW c \in Client, Notify(c) PROVE Saved'
    BY <1>21 DEF Notify, Saved, FilesNamed, run_vars
  <1>22. ASSUME NEW x \in Path, Remove(x) PROVE Saved'
    BY <1>22 DEF Remove, Saved, FilesNamed, run_vars
  <1>23. CASE UNCHANGED vars
    BY <1>23 DEF vars, Saved, FilesNamed, HasFiles, run_vars
  <1>24. QED
    BY <1>1, <1>2, <1>3, <1>4, <1>5, <1>6, <1>7, <1>8, <1>9, <1>10, <1>11, <1>12,
       <1>13, <1>14, <1>15, <1>16, <1>17, <1>18, <1>19, <1>20, <1>21, <1>22, <1>23 DEF
       Next

\* The parts of the type.
Checked ==
    /\ pc \in {"down", "load", "serve"} \cup Starting \cup Stopping
    /\ pc \in Starting \cup {"serve"} \cup Stopping => \A f \in Ranged : config[f] = "in range"
    /\ exit \in {"none", "config", "tls", "io", "bind", "stopped", "done"}
    /\ removed \in 0..MaxRemove

Stored == disk \in [Path -> Content] /\ pinned \in [Path \X Path -> 0..MaxStart]

Users ==
    /\ clients \subseteq Client /\ pin \in [Client -> 0..MaxStart]
    /\ clients # {} => pc \in {"serve"} \cup Stopping
    /\ to_notify \subseteq Client /\ notified \subseteq Client /\ steady \subseteq clients

\* They are all of it, beside what is counted.
LEMMA TypeParts == TypeOK /\ Counted <=> Checked /\ Stored /\ Users /\ Counted
  BY DEF TypeOK, Checked, Stored, Users, Counted

\* Only validate lets a start go on, and only with settings in range.
LEMMA CheckedStep == Checked /\ [Next]_vars => Checked'
  <1> SUFFICES ASSUME Checked, [Next]_vars PROVE Checked'
    OBVIOUS
  <1> USE ServerConstants DEF Starting, Stopping
  <1>1. ASSUME NEW cmd \in Commands, Start(cmd) PROVE Checked'
    BY <1>1 DEF Start, Go, Checked, disk_vars
  <1>2. CASE Validate
    BY <1>2 DEF Validate, Go, Valid, Checked, disk_vars, run_vars
  <1>3. CASE RefuseConfig
    BY <1>3 DEF RefuseConfig, Ends, Checked, disk_vars
  <1>4. CASE LoadPair
    BY <1>4 DEF LoadPair, Go, Checked, disk_vars
  <1>5. CASE RefusePair
    BY <1>5 DEF RefusePair, Ends, Checked, disk_vars
  <1>6. CASE GeneratePair
    BY <1>6 DEF GeneratePair, Go, Checked, disk_vars
  <1>7. CASE EmptyCert
    BY <1>7 DEF EmptyCert, Empty, Go, Checked, run_vars
  <1>8. CASE WriteCert
    BY <1>8 DEF WriteCert, Fill, Go, Checked, run_vars
  <1>9. CASE EmptyKey
    BY <1>9 DEF EmptyKey, Empty, Go, Checked, run_vars
  <1>10. CASE WriteKey
    BY <1>10 DEF WriteKey, Fill, Go, Checked, run_vars
  <1>11. CASE WriteFails
    BY <1>11 DEF WriteFails, Ends, Checked, disk_vars
  <1>12. CASE Serve
    BY <1>12 DEF Serve, Go, Checked, disk_vars, run_vars
  <1>13. CASE BindFails
    BY <1>13 DEF BindFails, Ends, Checked, disk_vars
  <1>14. CASE CtrlC
    BY <1>14 DEF CtrlC, Go, Checked, disk_vars, run_vars
  <1>15. CASE Close
    BY <1>15 DEF Close, Go, Checked, disk_vars, run_vars
  <1>16. CASE Down
    BY <1>16 DEF Down, Ends, Checked, disk_vars
  <1>17. CASE Crash
    BY <1>17 DEF Crash, Ends, Checked, disk_vars
  <1>18. ASSUME NEW c \in Client, CopyPin(c) PROVE Checked'
    BY <1>18 DEF CopyPin, Checked, disk_vars, run_vars
  <1>19. ASSUME NEW c \in Client, Join(c) PROVE Checked'
    BY <1>19 DEF Join, Checked, disk_vars, run_vars
  <1>20. ASSUME NEW c \in Client, Leave(c) PROVE Checked'
    BY <1>20 DEF Leave, Checked, disk_vars, run_vars
  <1>21. ASSUME NEW c \in Client, Notify(c) PROVE Checked'
    BY <1>21 DEF Notify, Checked, disk_vars, run_vars
  <1>22. ASSUME NEW x \in Path, Remove(x) PROVE Checked'
    <2>1. removed < MaxRemove /\ removed' = removed + 1 /\ UNCHANGED <<pc, exit, config>>
      BY <1>22 DEF Remove, run_vars
    <2>2. removed' \in 0..MaxRemove
      <3>1. removed \in 0..MaxRemove
        BY DEF Checked
      <3>2. QED
        BY <2>1, <3>1
    <2>3. QED
      BY <2>1, <2>2 DEF Checked
  <1>23. CASE UNCHANGED vars
    BY <1>23 DEF vars, Checked, disk_vars, run_vars
  <1>24. QED
    BY <1>1, <1>2, <1>3, <1>4, <1>5, <1>6, <1>7, <1>8, <1>9, <1>10, <1>11, <1>12,
       <1>13, <1>14, <1>15, <1>16, <1>17, <1>18, <1>19, <1>20, <1>21, <1>22, <1>23 DEF
       Next

\* Rooms have clients only while the server serves or stops.
LEMMA UsersStep == Users /\ Counted /\ [Next]_vars => Users'
  <1> SUFFICES ASSUME Users, Counted, [Next]_vars PROVE Users'
    OBVIOUS
  <1> USE DEF Starting, Stopping
  <1>1. ASSUME NEW cmd \in Commands, Start(cmd) PROVE Users'
    BY <1>1 DEF Start, Go, Users, client_vars
  <1>2. CASE Validate
    BY <1>2 DEF Validate, Go, Users, client_vars
  <1>3. CASE RefuseConfig
    BY <1>3 DEF RefuseConfig, Ends, Users
  <1>4. CASE LoadPair
    BY <1>4 DEF LoadPair, Go, Users, client_vars
  <1>5. CASE RefusePair
    BY <1>5 DEF RefusePair, Ends, Users
  <1>6. CASE GeneratePair
    BY <1>6 DEF GeneratePair, Go, Users, client_vars
  <1>7. CASE EmptyCert
    BY <1>7 DEF EmptyCert, Empty, Go, Users, client_vars
  <1>8. CASE WriteCert
    BY <1>8 DEF WriteCert, Fill, Go, Users, client_vars
  <1>9. CASE EmptyKey
    BY <1>9 DEF EmptyKey, Empty, Go, Users, client_vars
  <1>10. CASE WriteKey
    BY <1>10 DEF WriteKey, Fill, Go, Users, client_vars
  <1>11. CASE WriteFails
    BY <1>11 DEF WriteFails, Ends, Users
  <1>12. CASE Serve
    BY <1>12 DEF Serve, Go, Users, client_vars
  <1>13. CASE BindFails
    BY <1>13 DEF BindFails, Ends, Users
  <1>14. CASE CtrlC
    BY <1>14 DEF CtrlC, Go, Users
  <1>15. CASE Close
    BY <1>15 DEF Close, Go, Users, client_vars
  <1>16. CASE Down
    BY <1>16 DEF Down, Ends, Users
  <1>17. CASE Crash
    BY <1>17 DEF Crash, Ends, Users
  <1>18. ASSUME NEW c \in Client, CopyPin(c) PROVE Users'
    BY <1>18 DEF CopyPin, Users, Counted
  <1>19. ASSUME NEW c \in Client, Join(c) PROVE Users'
    BY <1>19 DEF Join, Users
  <1>20. ASSUME NEW c \in Client, Leave(c) PROVE Users'
    BY <1>20 DEF Leave, Users
  <1>21. ASSUME NEW c \in Client, Notify(c) PROVE Users'
    BY <1>21 DEF Notify, Users
  <1>22. ASSUME NEW x \in Path, Remove(x) PROVE Users'
    BY <1>22 DEF Remove, Users, client_vars
  <1>23. CASE UNCHANGED vars
    BY <1>23 DEF vars, Users, client_vars
  <1>24. QED
    BY <1>1, <1>2, <1>3, <1>4, <1>5, <1>6, <1>7, <1>8, <1>9, <1>10, <1>11, <1>12,
       <1>13, <1>14, <1>15, <1>16, <1>17, <1>18, <1>19, <1>20, <1>21, <1>22, <1>23 DEF
       Next

\* What is on disk, and what was announced of it.
LEMMA StoredStep == Stored /\ Counted /\ Saved /\ [Next]_vars => Stored'
  <1> SUFFICES ASSUME Stored, Counted, Saved, [Next]_vars PROVE Stored'
    OBVIOUS
  <1>1. ASSUME NEW cmd \in Commands, Start(cmd) PROVE Stored'
    BY <1>1 DEF Start, Stored, disk_vars
  <1>2. CASE Validate
    BY <1>2 DEF Validate, Stored, disk_vars
  <1>3. CASE RefuseConfig
    BY <1>3 DEF RefuseConfig, Ends, Stored, disk_vars
  <1>4. CASE LoadPair
    BY <1>4 DEF LoadPair, Stored, disk_vars
  <1>5. CASE RefusePair
    BY <1>5 DEF RefusePair, Ends, Stored, disk_vars
  <1>6. CASE GeneratePair
    BY <1>6 DEF GeneratePair, Stored, disk_vars
  <1>7. CASE EmptyCert
    <2>1. disk' \in [Path -> Content]
      BY <1>7, Contents DEF EmptyCert, Empty, Stored, Saved
    <2>2. pinned' \in [Path \X Path -> 0..MaxStart]
      <3>1. 0 \in 0..MaxStart /\ \A f \in Path \X Path : pinned[f] \in 0..MaxStart
        BY ServerConstants DEF Stored
      <3>2. QED
        BY <1>7, <3>1 DEF EmptyCert, Empty
    <2>3. QED
      BY <2>1, <2>2 DEF Stored
  <1>8. CASE WriteCert
    <2>1. disk' \in [Path -> Content]
      BY <1>8, Contents DEF WriteCert, Fill, Go, Stored, Saved, FilesNamed, HasFiles,
         Files, Saving, Counted
    <2>2. QED
      BY <1>8, <2>1 DEF WriteCert, Fill, Stored
  <1>9. CASE EmptyKey
    <2>1. disk' \in [Path -> Content]
      BY <1>9, Contents DEF EmptyKey, Empty, Stored, Saved
    <2>2. pinned' \in [Path \X Path -> 0..MaxStart]
      <3>1. 0 \in 0..MaxStart /\ \A f \in Path \X Path : pinned[f] \in 0..MaxStart
        BY ServerConstants DEF Stored
      <3>2. QED
        BY <1>9, <3>1 DEF EmptyKey, Empty
    <2>3. QED
      BY <2>1, <2>2 DEF Stored
  <1>10. CASE WriteKey
    <2>1. disk' \in [Path -> Content]
      BY <1>10, Contents DEF WriteKey, Fill, Go, Stored, Saved, FilesNamed, HasFiles,
         Files, Saving, Counted
    <2>2. QED
      BY <1>10, <2>1 DEF WriteKey, Fill, Stored
  <1>11. CASE WriteFails
    BY <1>11 DEF WriteFails, Ends, Stored, disk_vars
  <1>12. CASE Serve
    BY <1>12 DEF Serve, Stored, Counted, disk_vars
  <1>13. CASE BindFails
    BY <1>13 DEF BindFails, Ends, Stored, disk_vars
  <1>14. CASE CtrlC
    BY <1>14 DEF CtrlC, Stored, disk_vars
  <1>15. CASE Close
    BY <1>15 DEF Close, Stored, disk_vars
  <1>16. CASE Down
    BY <1>16 DEF Down, Ends, Stored, disk_vars
  <1>17. CASE Crash
    BY <1>17 DEF Crash, Ends, Stored, disk_vars
  <1>18. ASSUME NEW c \in Client, CopyPin(c) PROVE Stored'
    BY <1>18 DEF CopyPin, Stored, disk_vars
  <1>19. ASSUME NEW c \in Client, Join(c) PROVE Stored'
    BY <1>19 DEF Join, Stored, disk_vars
  <1>20. ASSUME NEW c \in Client, Leave(c) PROVE Stored'
    BY <1>20 DEF Leave, Stored, disk_vars
  <1>21. ASSUME NEW c \in Client, Notify(c) PROVE Stored'
    BY <1>21 DEF Notify, Stored, disk_vars
  <1>22. ASSUME NEW x \in Path, Remove(x) PROVE Stored'
    <2>1. disk' \in [Path -> Content]
      BY <1>22, Contents DEF Remove, Stored
    <2>2. pinned' \in [Path \X Path -> 0..MaxStart]
      <3>1. 0 \in 0..MaxStart /\ \A f \in Path \X Path : pinned[f] \in 0..MaxStart
        BY ServerConstants DEF Stored
      <3>2. QED
        BY <1>22, <3>1 DEF Remove
    <2>3. QED
      BY <2>1, <2>2 DEF Stored
  <1>23. CASE UNCHANGED vars
    BY <1>23 DEF vars, Stored, disk_vars
  <1>24. QED
    BY <1>1, <1>2, <1>3, <1>4, <1>5, <1>6, <1>7, <1>8, <1>9, <1>10, <1>11, <1>12,
       <1>13, <1>14, <1>15, <1>16, <1>17, <1>18, <1>19, <1>20, <1>21, <1>22, <1>23 DEF
       Next

\* All of it together.
LEMMA TypedInvariant == Spec => []Typed
  <1>1. Init => Typed
    <2> SUFFICES ASSUME Init PROVE Typed
      OBVIOUS
    <2>1. disk \in [Path -> Content]
      BY Contents DEF Init
    <2>2. config["cert_file"] = None /\ config["key_file"] = None
      BY DEF Init, Default, Ranged
    <2>3. Counted /\ Saved
      BY <2>2, ServerConstants DEF Init, Counted, Saved, FilesNamed, Saving
    <2>4. Checked /\ Stored /\ Users
      BY <2>1, ServerConstants DEF Init, Checked, Stored, Users, Starting, Stopping
    <2>5. QED
      BY <2>3, <2>4, TypeParts DEF Typed
  <1>2. Typed /\ [Next]_vars => Typed'
    <2> SUFFICES ASSUME Typed, [Next]_vars PROVE Typed'
      OBVIOUS
    <2>1. Checked /\ Stored /\ Users /\ Counted /\ Saved
      BY TypeParts DEF Typed
    <2>2. Checked' /\ Stored' /\ Users' /\ Counted' /\ Saved'
      BY <2>1, CheckedStep, StoredStep, UsersStep, CountedStep, SavedStep
    <2>3. QED
      BY <2>2 DEF Typed, TypeOK, Checked, Stored, Users, Counted
  <1>3. QED
    BY <1>1, <1>2, PTL DEF Spec

\* Among the types: no start goes past validate with a setting out of range,
\* from wherever it is set, and nobody is in a room while the server starts.
THEOREM TypeCorrect == Spec => []TypeOK
  <1>1. Typed => TypeOK
    BY DEF Typed
  <1>2. QED
    BY <1>1, TypedInvariant, PTL

-----------------------------------------------------------------------------
(* Pins. *)

\* What was announced for two files is in them.
Kept ==
    \A files \in Path \X Path : files[1] # files[2] /\ pinned[files] # 0 =>
        /\ disk[files[1]] = Cert(pinned[files])
        /\ disk[files[2]] = Key(pinned[files])

\* Where a start is, and what it has written: files that were announced are
\* loaded and not written, others are announced with what is in them.
Writing ==
    /\ pc = "write_cert" => disk[Files[1]] = Part
    /\ pc = "write_key" => disk[Files[2]] = Part
    /\ HasFiles /\ Files[1] # Files[2] =>
        /\ pc \in Saving => pinned[Files] = 0
        /\ pc \in {"save_key", "write_key"} => disk[Files[1]] = Cert(pair)
        /\ pc = "bind" => Readable(pair)
        /\ pc = "serve" /\ pinned[Files] # 0 => pair = pinned[Files]
        /\ pc = "down" /\ exit = "tls" => pinned[Files] = 0

\* Names that are given are names of files.
LEMMA TwoFiles == ASSUME Saved, HasFiles PROVE Files \in Path \X Path
  BY DEF Saved, FilesNamed, HasFiles, Files

\* A write makes all other claims on the file void, and is for files without one.
LEMMA KeptStep == Typed /\ Kept /\ Writing /\ [Next]_vars => Kept'
  <1> SUFFICES ASSUME Typed, Kept, Writing, [Next]_vars PROVE Kept'
    OBVIOUS
  <1>0. Stored /\ Counted /\ Saved
    BY TypeParts DEF Typed
  <1>1. ASSUME NEW cmd \in Commands, Start(cmd) PROVE Kept'
    BY <1>1 DEF Start, Kept, disk_vars
  <1>2. CASE Validate
    BY <1>2 DEF Validate, Kept, disk_vars
  <1>3. CASE RefuseConfig
    BY <1>3 DEF RefuseConfig, Ends, Kept, disk_vars
  <1>4. CASE LoadPair
    BY <1>4 DEF LoadPair, Kept, disk_vars
  <1>5. CASE RefusePair
    BY <1>5 DEF RefusePair, Ends, Kept, disk_vars
  <1>6. CASE GeneratePair
    BY <1>6 DEF GeneratePair, Kept, disk_vars
  <1>7. CASE EmptyCert
    <2>1. /\ HasFiles /\ Files \in Path \X Path /\ pc \in Saving
          /\ disk' = [disk EXCEPT ![Files[1]] = Part]
          /\ pinned' = [f \in Path \X Path |->
                          IF f # Files /\ Files[1] \in {f[1], f[2]} THEN 0 ELSE pinned[f]]
      BY <1>7, <1>0, TwoFiles DEF EmptyCert, Empty, Go, Saved, Saving
    <2>2. SUFFICES ASSUME NEW f \in Path \X Path, f[1] # f[2], pinned'[f] # 0
                   PROVE  disk'[f[1]] = Cert(pinned'[f]) /\ disk'[f[2]] = Key(pinned'[f])
      BY DEF Kept
    <2>3. f # Files
      BY <2>1, <2>2 DEF Writing
    <2>4. Files[1] \notin {f[1], f[2]} /\ pinned'[f] = pinned[f]
      BY <2>1, <2>2, <2>3
    <2>5. QED
      BY <1>0, <2>1, <2>2, <2>4 DEF Kept, Stored
  <1>8. CASE WriteCert
    <2>1. /\ Files \in Path \X Path /\ disk[Files[1]] = Part
          /\ disk' = [disk EXCEPT ![Files[1]] = Cert(pair)] /\ UNCHANGED pinned
      BY <1>8, <1>0, TwoFiles DEF WriteCert, Fill, Go, Saved, Saving, Writing
    <2>2. SUFFICES ASSUME NEW f \in Path \X Path, f[1] # f[2], pinned[f] # 0
                   PROVE  disk'[f[1]] = Cert(pinned[f]) /\ disk'[f[2]] = Key(pinned[f])
      BY <2>1 DEF Kept
    <2>3. disk[f[1]] = Cert(pinned[f]) /\ disk[f[2]] = Key(pinned[f])
      BY <2>2 DEF Kept
    <2>4. Files[1] \notin {f[1], f[2]}
      BY <2>1, <2>3, Contents
    <2>5. QED
      BY <1>0, <2>1, <2>2, <2>3, <2>4 DEF Stored
  <1>9. CASE EmptyKey
    <2>1. /\ HasFiles /\ Files \in Path \X Path /\ pc \in Saving
          /\ disk' = [disk EXCEPT ![Files[2]] = Part]
          /\ pinned' = [f \in Path \X Path |->
                          IF f # Files /\ Files[2] \in {f[1], f[2]} THEN 0 ELSE pinned[f]]
      BY <1>9, <1>0, TwoFiles DEF EmptyKey, Empty, Go, Saved, Saving
    <2>2. SUFFICES ASSUME NEW f \in Path \X Path, f[1] # f[2], pinned'[f] # 0
                   PROVE  disk'[f[1]] = Cert(pinned'[f]) /\ disk'[f[2]] = Key(pinned'[f])
      BY DEF Kept
    <2>3. f # Files
      BY <2>1, <2>2 DEF Writing
    <2>4. Files[2] \notin {f[1], f[2]} /\ pinned'[f] = pinned[f]
      BY <2>1, <2>2, <2>3
    <2>5. QED
      BY <1>0, <2>1, <2>2, <2>4 DEF Kept, Stored
  <1>10. CASE WriteKey
    <2>1. /\ Files \in Path \X Path /\ disk[Files[2]] = Part
          /\ disk' = [disk EXCEPT ![Files[2]] = Key(pair)] /\ UNCHANGED pinned
      BY <1>10, <1>0, TwoFiles DEF WriteKey, Fill, Go, Saved, Saving, Writing
    <2>2. SUFFICES ASSUME NEW f \in Path \X Path, f[1] # f[2], pinned[f] # 0
                   PROVE  disk'[f[1]] = Cert(pinned[f]) /\ disk'[f[2]] = Key(pinned[f])
      BY <2>1 DEF Kept
    <2>3. disk[f[1]] = Cert(pinned[f]) /\ disk[f[2]] = Key(pinned[f])
      BY <2>2 DEF Kept
    <2>4. Files[2] \notin {f[1], f[2]}
      BY <2>1, <2>3, Contents
    <2>5. QED
      BY <1>0, <2>1, <2>2, <2>3, <2>4 DEF Stored
  <1>11. CASE WriteFails
    BY <1>11 DEF WriteFails, Ends, Kept, disk_vars
  <1>12. CASE Serve
    <2>1. CASE HasFiles /\ pinned[Files] = 0
      <3>1. Files \in Path \X Path /\ pinned' = [pinned EXCEPT ![Files] = pair] /\ UNCHANGED disk
        BY <1>12, <1>0, <2>1, TwoFiles DEF Serve, disk_vars
      <3>2. Files[1] # Files[2] => Readable(pair)
        BY <1>12, <2>1 DEF Serve, Go, Writing
      <3>3. QED
        BY <1>0, <3>1, <3>2 DEF Kept, Stored, Readable
    <2>2. CASE ~(HasFiles /\ pinned[Files] = 0)
      BY <1>12, <2>2 DEF Serve, Kept, disk_vars
    <2>3. QED
      BY <2>1, <2>2
  <1>13. CASE BindFails
    BY <1>13 DEF BindFails, Ends, Kept, disk_vars
  <1>14. CASE CtrlC
    BY <1>14 DEF CtrlC, Kept, disk_vars
  <1>15. CASE Close
    BY <1>15 DEF Close, Kept, disk_vars
  <1>16. CASE Down
    BY <1>16 DEF Down, Ends, Kept, disk_vars
  <1>17. CASE Crash
    BY <1>17 DEF Crash, Ends, Kept, disk_vars
  <1>18. ASSUME NEW c \in Client, CopyPin(c) PROVE Kept'
    BY <1>18 DEF CopyPin, Kept, disk_vars
  <1>19. ASSUME NEW c \in Client, Join(c) PROVE Kept'
    BY <1>19 DEF Join, Kept, disk_vars
  <1>20. ASSUME NEW c \in Client, Leave(c) PROVE Kept'
    BY <1>20 DEF Leave, Kept, disk_vars
  <1>21. ASSUME NEW c \in Client, Notify(c) PROVE Kept'
    BY <1>21 DEF Notify, Kept, disk_vars
  <1>22. ASSUME NEW x \in Path, Remove(x) PROVE Kept'
    BY <1>22 DEF Remove, Kept
  <1>23. CASE UNCHANGED vars
    BY <1>23 DEF vars, Kept, disk_vars
  <1>24. QED
    BY <1>1, <1>2, <1>3, <1>4, <1>5, <1>6, <1>7, <1>8, <1>9, <1>10, <1>11, <1>12,
       <1>13, <1>14, <1>15, <1>16, <1>17, <1>18, <1>19, <1>20, <1>21, <1>22, <1>23 DEF
       Next

\* A start that finds its files announced loads them.
LEMMA WritingStep == Typed /\ Kept /\ Writing /\ [Next]_vars => Writing'
  <1> SUFFICES ASSUME Typed, Kept, Writing, [Next]_vars PROVE Writing'
    OBVIOUS
  <1>0. Stored /\ Counted /\ Saved
    BY TypeParts DEF Typed
  <1> USE DEF Saving
  <1>1. ASSUME NEW cmd \in Commands, Start(cmd) PROVE Writing'
    BY <1>1 DEF Start, Go, Writing
  <1>2. CASE Validate
    BY <1>2 DEF Validate, Go, Writing
  <1>3. CASE RefuseConfig
    BY <1>3 DEF RefuseConfig, Ends, Writing
  <1>4. CASE LoadPair
    BY <1>4 DEF LoadPair, Go, Writing, Files, Readable, disk_vars
  <1>5. CASE RefusePair
    <2>1. UNCHANGED <<config, pair>> /\ Files' = Files /\ HasFiles' = HasFiles
      BY <1>5 DEF RefusePair, Ends, Files, HasFiles, run_vars
    <2>2. Files[1] # Files[2] => pinned[Files] = 0
      <3>1. HasFiles /\ Files \in Path \X Path /\ ~(\E p \in 1..MaxStart : Readable(p))
        BY <1>5, <1>0, TwoFiles DEF RefusePair, OnDisk
      <3>2. pinned[Files] # 0 => pinned[Files] \in 1..MaxStart
        BY <1>0, <3>1, ServerConstants DEF Stored
      <3>3. QED
        BY <3>1, <3>2 DEF Kept, Readable
    <2>3. QED
      BY <1>5, <2>1, <2>2 DEF RefusePair, Ends, Writing
  <1>6. CASE GeneratePair
    <2>1. /\ UNCHANGED <<config, disk, pinned>> /\ Files' = Files /\ HasFiles' = HasFiles
          /\ pc' = IF HasFiles THEN "save_cert" ELSE "bind"
      BY <1>6 DEF GeneratePair, Go, Files, HasFiles, disk_vars
    <2>2. HasFiles /\ Files[1] # Files[2] => pinned[Files] = 0
      <3>1. SUFFICES ASSUME HasFiles, Files[1] # Files[2], pinned[Files] # 0 PROVE FALSE
        OBVIOUS
      <3>2. disk[Files[1]] = Cert(pinned[Files]) /\ disk[Files[2]] = Key(pinned[Files])
        BY <1>0, <3>1, TwoFiles DEF Kept
      <3>3. \A k \in 1..2 : disk[Files[k]] # Absent
        BY <3>2, Contents
      <3>4. QED
        BY <1>6, <3>1, <3>3 DEF GeneratePair, OnDisk
    <2>3. QED
      BY <2>1, <2>2 DEF Writing
  <1>7. CASE EmptyCert
    <2>1. /\ UNCHANGED <<config, pair>> /\ Files' = Files /\ HasFiles' = HasFiles
          /\ HasFiles /\ Files \in Path \X Path
      BY <1>7, <1>0, TwoFiles DEF EmptyCert, Empty, Go, Saved, Files, HasFiles, run_vars
    <2>2. disk'[Files[1]] = Part /\ pinned'[Files] = pinned[Files]
      BY <1>7, <1>0, <2>1 DEF EmptyCert, Empty, Stored, Writing
    <2>3. QED
      BY <1>7, <2>1, <2>2 DEF EmptyCert, Empty, Go, Writing
  <1>8. CASE WriteCert
    <2>1. /\ UNCHANGED <<config, pair>> /\ Files' = Files /\ HasFiles' = HasFiles
          /\ HasFiles /\ Files \in Path \X Path
      BY <1>8, <1>0, TwoFiles DEF WriteCert, Fill, Go, Saved, Files, HasFiles, run_vars
    <2>2. disk'[Files[1]] = Cert(pair) /\ UNCHANGED pinned
      BY <1>8, <1>0, <2>1 DEF WriteCert, Fill, Stored, Writing
    <2>3. QED
      BY <1>8, <2>1, <2>2 DEF WriteCert, Fill, Go, Writing
  <1>9. CASE EmptyKey
    <2>1. /\ UNCHANGED <<config, pair>> /\ Files' = Files /\ HasFiles' = HasFiles
          /\ HasFiles /\ Files \in Path \X Path
      BY <1>9, <1>0, TwoFiles DEF EmptyKey, Empty, Go, Saved, Files, HasFiles, run_vars
    <2>2. /\ disk'[Files[2]] = Part /\ pinned'[Files] = pinned[Files]
          /\ Files[1] # Files[2] => disk'[Files[1]] = Cert(pair)
      BY <1>9, <1>0, <2>1 DEF EmptyKey, Empty, Go, Stored, Writing
    <2>3. QED
      BY <1>9, <2>1, <2>2 DEF EmptyKey, Empty, Go, Writing
  <1>10. CASE WriteKey
    <2>1. /\ UNCHANGED <<config, pair>> /\ Files' = Files /\ HasFiles' = HasFiles
          /\ HasFiles /\ Files \in Path \X Path
      BY <1>10, <1>0, TwoFiles DEF WriteKey, Fill, Go, Saved, Files, HasFiles, run_vars
    <2>2. /\ disk'[Files[2]] = Key(pair) /\ UNCHANGED pinned
          /\ Files[1] # Files[2] => disk'[Files[1]] = Cert(pair)
      BY <1>10, <1>0, <2>1 DEF WriteKey, Fill, Go, Stored, Writing
    <2>3. QED
      BY <1>10, <2>1, <2>2 DEF WriteKey, Fill, Go, Writing, Readable
  <1>11. CASE WriteFails
    BY <1>11 DEF WriteFails, Ends, Writing
  <1>12. CASE Serve
    <2>1. UNCHANGED <<config, pair>> /\ Files' = Files /\ HasFiles' = HasFiles
      BY <1>12 DEF Serve, Files, HasFiles, run_vars
    <2>2. HasFiles /\ Files[1] # Files[2] /\ pinned'[Files] # 0 => pair = pinned'[Files]
      <3>1. SUFFICES ASSUME HasFiles, Files[1] # Files[2] PROVE pair = pinned'[Files]
        OBVIOUS
      <3>2. Readable(pair) /\ Files \in Path \X Path
        BY <1>12, <1>0, <3>1, TwoFiles DEF Serve, Go, Writing
      <3>3. CASE pinned[Files] = 0
        BY <1>12, <1>0, <3>1, <3>2, <3>3 DEF Serve, Stored
      <3>4. CASE pinned[Files] # 0
        <4>1. Cert(pinned[Files]) = Cert(pair)
          BY <3>1, <3>2, <3>4 DEF Kept, Readable
        <4>2. QED
          BY <1>12, <3>4, <4>1, Contents DEF Serve
      <3>5. QED
        BY <3>3, <3>4
    <2>3. QED
      BY <1>12, <2>1, <2>2 DEF Serve, Go, Writing
  <1>13. CASE BindFails
    BY <1>13 DEF BindFails, Ends, Writing
  <1>14. CASE CtrlC
    BY <1>14 DEF CtrlC, Go, Writing
  <1>15. CASE Close
    BY <1>15 DEF Close, Go, Writing
  <1>16. CASE Down
    BY <1>16 DEF Down, Ends, Writing
  <1>17. CASE Crash
    BY <1>17 DEF Crash, Ends, Writing
  <1>18. ASSUME NEW c \in Client, CopyPin(c) PROVE Writing'
    BY <1>18 DEF CopyPin, Writing, Files, HasFiles, run_vars
  <1>19. ASSUME NEW c \in Client, Join(c) PROVE Writing'
    BY <1>19 DEF Join, Writing, Files, HasFiles, run_vars
  <1>20. ASSUME NEW c \in Client, Leave(c) PROVE Writing'
    BY <1>20 DEF Leave, Writing, Files, HasFiles, Readable, disk_vars, run_vars
  <1>21. ASSUME NEW c \in Client, Notify(c) PROVE Writing'
    BY <1>21 DEF Notify, Writing
  <1>22. ASSUME NEW x \in Path, Remove(x) PROVE Writing'
    <2>1. UNCHANGED <<config, pair>> /\ Files' = Files /\ HasFiles' = HasFiles
      BY <1>22 DEF Remove, Files, HasFiles, run_vars
    <2>2. HasFiles => pinned'[Files] \in {0, pinned[Files]}
      BY <1>22, <1>0, TwoFiles DEF Remove
    <2>3. QED
      BY <1>22, <2>1, <2>2 DEF Remove, Writing
  <1>23. CASE UNCHANGED vars
    BY <1>23 DEF vars, Writing, Files, HasFiles, Readable, disk_vars, run_vars
  <1>24. QED
    BY <1>1, <1>2, <1>3, <1>4, <1>5, <1>6, <1>7, <1>8, <1>9, <1>10, <1>11, <1>12,
       <1>13, <1>14, <1>15, <1>16, <1>17, <1>18, <1>19, <1>20, <1>21, <1>22, <1>23 DEF
       Next

\* A fingerprint stays that of its files, over any number of starts, stops at
\* any step and configurations that share a file.
THEOREM PinsStay == Spec => []PinStable
  <1>1. Init => Kept /\ Writing
    <2> SUFFICES ASSUME Init PROVE Kept /\ Writing
      OBVIOUS
    <2>1. ~HasFiles
      BY DEF Init, HasFiles, Default, Ranged
    <2>2. QED
      BY <2>1 DEF Init, Kept, Writing
  <1>2. Typed /\ Kept /\ Writing /\ [Next]_vars => Kept' /\ Writing'
    BY KeptStep, WritingStep
  <1>3. Writing => PinStable
    BY DEF Writing, PinStable
  <1>4. QED
    BY <1>1, <1>2, <1>3, TypedInvariant, PTL DEF Spec

-----------------------------------------------------------------------------
(* Shutdown. *)

\* Whoever stays has been told or is still to come in the walk.
Walk ==
    /\ pc = "notify" => steady \subseteq notified \cup to_notify
    /\ pc = "close" => steady \subseteq notified

\* Leaving takes a client out of the walk, joining puts none out.
LEMMA WalkStep == Walk /\ [Next]_vars => Walk'
  <1> SUFFICES ASSUME Walk, [Next]_vars PROVE Walk'
    OBVIOUS
  <1>1. ASSUME NEW cmd \in Commands, Start(cmd) PROVE Walk'
    BY <1>1 DEF Start, Go, Walk
  <1>2. CASE Validate
    BY <1>2 DEF Validate, Go, Walk
  <1>3. CASE RefuseConfig
    BY <1>3 DEF RefuseConfig, Ends, Walk
  <1>4. CASE LoadPair
    BY <1>4 DEF LoadPair, Go, Walk
  <1>5. CASE RefusePair
    BY <1>5 DEF RefusePair, Ends, Walk
  <1>6. CASE GeneratePair
    BY <1>6 DEF GeneratePair, Go, Walk
  <1>7. CASE EmptyCert
    BY <1>7 DEF EmptyCert, Empty, Go, Walk
  <1>8. CASE WriteCert
    BY <1>8 DEF WriteCert, Fill, Go, Walk
  <1>9. CASE EmptyKey
    BY <1>9 DEF EmptyKey, Empty, Go, Walk
  <1>10. CASE WriteKey
    BY <1>10 DEF WriteKey, Fill, Go, Walk
  <1>11. CASE WriteFails
    BY <1>11 DEF WriteFails, Ends, Walk
  <1>12. CASE Serve
    BY <1>12 DEF Serve, Go, Walk
  <1>13. CASE BindFails
    BY <1>13 DEF BindFails, Ends, Walk
  <1>14. CASE CtrlC
    BY <1>14 DEF CtrlC, Go, Walk
  <1>15. CASE Close
    BY <1>15 DEF Close, Go, Walk, client_vars
  <1>16. CASE Down
    BY <1>16 DEF Down, Ends, Walk
  <1>17. CASE Crash
    BY <1>17 DEF Crash, Ends, Walk
  <1>18. ASSUME NEW c \in Client, CopyPin(c) PROVE Walk'
    BY <1>18 DEF CopyPin, Walk
  <1>19. ASSUME NEW c \in Client, Join(c) PROVE Walk'
    BY <1>19 DEF Join, Walk
  <1>20. ASSUME NEW c \in Client, Leave(c) PROVE Walk'
    BY <1>20 DEF Leave, Walk
  <1>21. ASSUME NEW c \in Client, Notify(c) PROVE Walk'
    BY <1>21 DEF Notify, Walk
  <1>22. ASSUME NEW x \in Path, Remove(x) PROVE Walk'
    BY <1>22 DEF Remove, Walk
  <1>23. CASE UNCHANGED vars
    BY <1>23 DEF vars, Walk, client_vars
  <1>24. QED
    BY <1>1, <1>2, <1>3, <1>4, <1>5, <1>6, <1>7, <1>8, <1>9, <1>10, <1>11, <1>12,
       <1>13, <1>14, <1>15, <1>16, <1>17, <1>18, <1>19, <1>20, <1>21, <1>22, <1>23 DEF
       Next

\* The notice is sent to everybody who was in a room when shutdown began and
\* stays, whoever joins and leaves while the rooms are walked through.
THEOREM ShutdownIsTold == Spec => []ShutdownNotifies
  <1>1. Init => Walk
    BY DEF Init, Walk
  <1>2. Walk => ShutdownNotifies
    BY DEF Walk, ShutdownNotifies
  <1>3. QED
    BY <1>1, <1>2, WalkStep, PTL DEF Spec

-----------------------------------------------------------------------------
(* The accept loop: arithmetic of the refill. *)

\* What flows in over any time is a natural number.
LEMMA RefillNat == ASSUME NEW t \in Nat PROVE t * Rate \in Nat
  BY BucketConstants

\* One tick more adds Rate parts.
LEMMA RefillStep == ASSUME NEW t \in Nat PROVE (t + 1) * Rate = t * Rate + Rate
  BY BucketConstants

\* A bucket of the table, refilled, is within its capacity.
LEMMA RefilledType ==
  ASSUME NEW b \in Buckets, NEW t \in Nat, b.last_refill <= t
  PROVE  Refilled(b, t) \in 0..Capacity
  <1>1. b.tokens \in 0..Capacity /\ b.last_refill \in Nat
    BY DEF Buckets
  <1>2. t - b.last_refill \in Nat
    BY <1>1
  <1>3. (t - b.last_refill) * Rate \in Nat
    BY <1>2, RefillNat
  <1> HIDE DEF Buckets
  <1>4. QED
    BY <1>1, <1>3, BucketConstants DEF Refilled, Capped

\* A new bucket is full at the instant it is made.
LEMMA FullRefilled ==
  ASSUME NEW t \in Nat
  PROVE  FullBucket(t) \in Buckets /\ FullBucket(t).last_refill = t
         /\ Refilled(FullBucket(t), t) = Capacity
  <1>1. FullBucket(t) = [tokens |-> Capacity, last_refill |-> t]
    BY DEF FullBucket
  <1>2. (t - t) * Rate = 0
    BY BucketConstants
  <1>3. QED
    BY <1>1, <1>2, BucketConstants DEF Buckets, Refilled, Capped

\* try_consume takes a token if there is one, and nothing else.
LEMMA ConsumedLevel ==
  ASSUME NEW b \in Buckets, NEW t \in Nat, b.last_refill <= t
  PROVE  /\ Consumed(b, t) \in Buckets
         /\ Consumed(b, t).last_refill = t
         /\ Refilled(Consumed(b, t), t) =
              IF CanConsume(b, t) THEN Refilled(b, t) - Unit ELSE Refilled(b, t)
  <1> DEFINE c == IF CanConsume(b, t) THEN Refilled(b, t) - Unit ELSE Refilled(b, t)
  <1>1. c \in 0..Capacity
    BY RefilledType, BucketConstants DEF CanConsume
  <1>2. Consumed(b, t) = [tokens |-> c, last_refill |-> t]
    BY DEF Consumed
  <1> HIDE DEF c
  <1>3. (t - t) * Rate = 0
    BY BucketConstants
  <1>4. Consumed(b, t) \in Buckets /\ Consumed(b, t).last_refill = t
    BY <1>1, <1>2 DEF Buckets
  <1>5. Refilled(Consumed(b, t), t) = c
    BY <1>1, <1>2, <1>3, BucketConstants DEF Refilled, Capped
  <1>6. QED
    BY <1>4, <1>5 DEF c

\* A tick of the clock adds Rate parts, up to the capacity.
LEMMA RefilledNext ==
  ASSUME NEW b \in Buckets, NEW t \in Nat, b.last_refill <= t
  PROVE  Refilled(b, t + 1) = Capped(Refilled(b, t) + Rate)
  <1>1. b.tokens \in 0..Capacity /\ b.last_refill \in Nat
    BY DEF Buckets
  <1>2. t - b.last_refill \in Nat /\ (t + 1) - b.last_refill = (t - b.last_refill) + 1
    BY <1>1
  <1>3. ((t + 1) - b.last_refill) * Rate = (t - b.last_refill) * Rate + Rate
    BY <1>2, RefillStep
  <1>4. (t - b.last_refill) * Rate \in Nat
    BY <1>2, RefillNat
  <1>5. QED
    BY <1>1, <1>3, <1>4, BucketConstants DEF Refilled, Capped

-----------------------------------------------------------------------------
(* The types. *)

\* A bucket that is used is one of the table or a new one; either way it is
\* well formed and no younger than the present.
LEMMA BucketOfType ==
  ASSUME AcceptTypeOK, NEW ip \in IP
  PROVE  BucketOf(ip) \in Buckets /\ BucketOf(ip).last_refill <= now
  <1>1. now \in Nat
    BY DEF AcceptTypeOK
  <1>2. CASE ip \in Surviving
    BY <1>2 DEF BucketOf, Surviving, AcceptTypeOK
  <1>3. CASE ip \notin Surviving
    BY <1>1, <1>3, FullRefilled DEF BucketOf
  <1>4. QED
    BY <1>2, <1>3

\* The types are kept by every step.
LEMMA AcceptTypeStep == AcceptTypeOK /\ [AcceptNext]_accept_vars => AcceptTypeOK'
  <1> SUFFICES ASSUME AcceptTypeOK, [AcceptNext]_accept_vars PROVE AcceptTypeOK'
    OBVIOUS
  <1>1. CASE \E ip \in IP : Accept(ip)
    <2>1. PICK ip \in IP : Accept(ip)
      BY <1>1
    <2>2. /\ Consumed(BucketOf(ip), now) \in Buckets
          /\ Consumed(BucketOf(ip), now).last_refill = now
      BY BucketOfType, ConsumedLevel DEF AcceptTypeOK
    <2>3. Surviving \subseteq Held /\ Held \subseteq IP
      BY DEF Surviving, AcceptTypeOK
    <2>4. now' = now /\ now \in Nat /\ last_cleanup' \in 0..now'
      BY <2>1 DEF Accept, AcceptTypeOK
    <2>5. Held' = Surviving \cup {ip}
      BY <2>1 DEF Accept, Held
    <2>6. \A i \in Held' : conn_buckets'[i] \in Buckets /\ conn_buckets'[i].last_refill <= now'
      <3> SUFFICES ASSUME NEW i \in Held'
                   PROVE  conn_buckets'[i] \in Buckets /\ conn_buckets'[i].last_refill <= now'
        OBVIOUS
      <3>1. conn_buckets'[i] = IF i = ip THEN Consumed(BucketOf(ip), now) ELSE conn_buckets[i]
        BY <2>1, <2>5 DEF Accept
      <3>2. i # ip => i \in Held
        BY <2>3, <2>5
      <3>3. QED
        BY <2>2, <2>4, <3>1, <3>2 DEF AcceptTypeOK
    <2>7. outcome' \in IP \X BOOLEAN
      <3>1. CanConsume(BucketOf(ip), now) \in BOOLEAN
        BY DEF CanConsume
      <3>2. outcome' = <<ip, CanConsume(BucketOf(ip), now)>>
        BY <2>1 DEF Accept
      <3> HIDE <2>1
      <3>3. QED
        BY <3>1, <3>2
    <2>8. granted' \in [IP -> Nat] /\ elapsed' \in 0..now'
      BY <2>1 DEF Accept, AcceptTypeOK
    <2>9. QED
      BY <2>3, <2>4, <2>5, <2>6, <2>7, <2>8 DEF AcceptTypeOK
  <1>2. CASE Elapse
    BY <1>2 DEF Elapse, AcceptTypeOK, Held, Buckets
  <1>3. CASE OpenWindow
    BY <1>3 DEF OpenWindow, AcceptTypeOK, Held
  <1>4. CASE UNCHANGED accept_vars
    BY <1>4 DEF accept_vars, AcceptTypeOK, Held
  <1>5. QED
    BY <1>1, <1>2, <1>3, <1>4 DEF AcceptNext

\* The table holds buckets of the addresses, none of them from the future.
THEOREM AcceptTypeCorrect == AcceptSpec => []AcceptTypeOK
  <1>1. AcceptInit => AcceptTypeOK
    BY DEF AcceptInit, AcceptTypeOK, Held
  <1>2. QED
    BY <1>1, AcceptTypeStep, PTL DEF AcceptSpec

-----------------------------------------------------------------------------
(* The level of an address, whether or not the table holds its bucket. *)

\* The level is within the capacity.
LEMMA LevelType == ASSUME AcceptTypeOK, NEW ip \in IP PROVE Level(ip) \in 0..Capacity
  <1>1. CASE ip \in Held
    BY <1>1, RefilledType DEF Level, AcceptTypeOK
  <1>2. CASE ip \notin Held
    BY <1>2, BucketConstants DEF Level
  <1>3. QED
    BY <1>1, <1>2

\* Neither the cleanup nor a missing bucket changes what an attempt finds.
LEMMA LevelFound == ASSUME AcceptTypeOK, NEW ip \in IP PROVE Refilled(BucketOf(ip), now) = Level(ip)
  <1>1. now \in Nat
    BY DEF AcceptTypeOK
  <1>2. CASE ip \in Surviving
    BY <1>2 DEF BucketOf, Surviving, Level
  <1>3. CASE ip \notin Surviving /\ ip \in Held
    <2>1. Stale(ip)
      BY <1>3 DEF Surviving
    <2>2. Level(ip) = Capacity
      <3>1. conn_buckets[ip].tokens + (now - conn_buckets[ip].last_refill) * Rate >= Capacity
        BY <2>1 DEF Stale
      <3>2. conn_buckets[ip] \in Buckets /\ conn_buckets[ip].last_refill <= now
        BY <1>3 DEF AcceptTypeOK
      <3>3. /\ conn_buckets[ip].tokens \in Nat
            /\ now - conn_buckets[ip].last_refill \in Nat
        BY <1>1, <3>2, BucketConstants DEF Buckets
      <3>4. (now - conn_buckets[ip].last_refill) * Rate \in Nat
        BY <3>3, RefillNat
      <3>5. Capped(conn_buckets[ip].tokens + (now - conn_buckets[ip].last_refill) * Rate)
              = Capacity
        <4> DEFINE inflow == (now - conn_buckets[ip].last_refill) * Rate
        <4>1. inflow \in Nat /\ conn_buckets[ip].tokens + inflow >= Capacity
          BY <3>1, <3>4
        <4> HIDE DEF inflow
        <4>2. Capped(conn_buckets[ip].tokens + inflow) = Capacity
          BY <3>3, <4>1, BucketConstants DEF Capped
        <4>3. QED
          BY <4>2 DEF inflow
      <3>6. QED
        BY <1>3, <3>5 DEF Level, Refilled
    <2>3. QED
      BY <1>1, <1>3, <2>2, FullRefilled DEF BucketOf
  <1>4. CASE ip \notin Surviving /\ ip \notin Held
    BY <1>1, <1>4, FullRefilled DEF BucketOf, Level
  <1>5. QED
    BY <1>2, <1>3, <1>4

\* An attempt takes one token from its own address if there is one.
LEMMA LevelAccept ==
  ASSUME AcceptTypeOK, NEW ip \in IP, Accept(ip), NEW i \in IP
  PROVE  Level(i)' = IF i = ip /\ Level(ip) >= Unit THEN Level(i) - Unit ELSE Level(i)
  <1>1. now \in Nat /\ now' = now
    BY DEF Accept, AcceptTypeOK
  <1>2. Held' = Surviving \cup {ip}
    BY DEF Accept, Held
  <1>3. CASE i = ip
    <2>1. conn_buckets'[ip] = Consumed(BucketOf(ip), now)
      BY DEF Accept
    <2>2. Refilled(Consumed(BucketOf(ip), now), now) =
            IF CanConsume(BucketOf(ip), now) THEN Level(ip) - Unit ELSE Level(ip)
      BY <1>1, BucketOfType, LevelFound, ConsumedLevel
    <2>3. CanConsume(BucketOf(ip), now) <=> Level(ip) >= Unit
      BY LevelFound DEF CanConsume
    <2>4. Level(ip)' = Refilled(conn_buckets'[ip], now')
      BY <1>2 DEF Level
    <2>5. QED
      BY <1>1, <1>3, <2>1, <2>2, <2>3, <2>4
  <1>4. CASE i # ip /\ i \in Surviving
    <2>1. conn_buckets'[i] = conn_buckets[i]
      BY <1>4 DEF Accept
    <2>2. i \in Held /\ i \in Held'
      BY <1>2, <1>4 DEF Surviving
    <2>3. QED
      BY <1>1, <1>4, <2>1, <2>2 DEF Level, Refilled
  <1>5. CASE i # ip /\ i \notin Surviving
    <2>1. Level(i)' = Capacity
      BY <1>2, <1>5 DEF Level
    <2>2. Level(i) = Capacity
      BY <1>1, <1>5, LevelFound, FullRefilled DEF BucketOf
    <2>3. QED
      BY <1>5, <2>1, <2>2
  <1>6. QED
    BY <1>3, <1>4, <1>5

\* A tick adds Rate parts to every level, up to the capacity.
LEMMA LevelElapse ==
  ASSUME AcceptTypeOK, Elapse, NEW i \in IP
  PROVE  Level(i)' = Capped(Level(i) + Rate)
  <1>1. now \in Nat /\ now' = now + 1 /\ conn_buckets' = conn_buckets /\ Held' = Held
    BY DEF Elapse, AcceptTypeOK, Held
  <1>2. CASE i \in Held
    <2>1. Refilled(conn_buckets[i], now + 1) = Capped(Refilled(conn_buckets[i], now) + Rate)
      BY <1>1, <1>2, RefilledNext DEF AcceptTypeOK
    <2>2. Level(i)' = Refilled(conn_buckets[i], now + 1)
      BY <1>1, <1>2 DEF Level, Refilled
    <2>3. QED
      BY <1>2, <2>1, <2>2 DEF Level
  <1>3. CASE i \notin Held
    BY <1>1, <1>3, BucketConstants DEF Level, Capped
  <1>4. QED
    BY <1>2, <1>3

-----------------------------------------------------------------------------
(* The bound on a window. *)

\* What was granted in the window and what is still in the bucket came out of
\* a full bucket and what flowed in since.
WindowInv ==
    \A ip \in IP : granted[ip] * Unit + Level(ip) <= Capacity + elapsed * Rate

\* Every step keeps the balance of tokens.
LEMMA WindowStep == AcceptTypeOK /\ WindowInv /\ [AcceptNext]_accept_vars => WindowInv'
  <1> SUFFICES ASSUME AcceptTypeOK, WindowInv, [AcceptNext]_accept_vars, NEW i \in IP
               PROVE  granted'[i] * Unit + Level(i)' <= Capacity + elapsed' * Rate
    BY DEF WindowInv
  <1>1. /\ granted[i] \in Nat /\ elapsed \in Nat /\ Level(i) \in 0..Capacity
        /\ granted[i] * Unit + Level(i) <= Capacity + elapsed * Rate
    BY LevelType DEF AcceptTypeOK, WindowInv
  <1>2. granted[i] * Unit \in Nat /\ elapsed * Rate \in Nat
    BY <1>1, BucketConstants, RefillNat
  <1>3. CASE \E ip \in IP : Accept(ip)
    <2>1. PICK ip \in IP : Accept(ip)
      BY <1>3
    <2>2. elapsed' = elapsed
      BY <2>1 DEF Accept
    <2>3. CASE i = ip /\ Level(ip) >= Unit
      <3>1. CanConsume(BucketOf(ip), now)
        BY <2>3, LevelFound DEF CanConsume
      <3>2. granted'[i] = granted[i] + 1
        BY <2>1, <2>3, <3>1 DEF Accept, AcceptTypeOK
      <3>3. Level(i)' = Level(i) - Unit
        BY <2>1, <2>3, LevelAccept
      <3>4. (granted[i] + 1) * Unit = granted[i] * Unit + Unit
        BY <1>1, BucketConstants
      <3>5. QED
        BY <1>1, <1>2, <2>2, <3>2, <3>3, <3>4, BucketConstants
    <2>4. CASE ~(i = ip /\ Level(ip) >= Unit)
      <3>1. i = ip => ~CanConsume(BucketOf(ip), now)
        BY <2>4, LevelFound DEF CanConsume
      <3>2. granted'[i] = granted[i]
        BY <2>1, <3>1 DEF Accept, AcceptTypeOK
      <3>3. Level(i)' = Level(i)
        BY <2>1, <2>4, LevelAccept
      <3>4. QED
        BY <1>1, <2>2, <3>2, <3>3
    <2>5. QED
      BY <2>3, <2>4
  <1>4. CASE Elapse
    <2>1. granted'[i] = granted[i] /\ elapsed' = elapsed + 1
      BY <1>4 DEF Elapse
    <2>2. Level(i)' <= Level(i) + Rate /\ Level(i)' \in Int
      BY <1>1, <1>4, LevelElapse, BucketConstants DEF Capped
    <2>3. (elapsed + 1) * Rate = elapsed * Rate + Rate
      BY <1>1, RefillStep
    <2>4. QED
      BY <1>1, <1>2, <2>1, <2>2, <2>3, BucketConstants
  <1>5. CASE OpenWindow
    <2>1. granted'[i] = 0 /\ elapsed' = 0 /\ Level(i)' = Level(i)
      BY <1>5 DEF OpenWindow, Level, Held, Refilled
    <2>2. QED
      BY <1>1, <2>1, BucketConstants
  <1>6. CASE UNCHANGED accept_vars
    <2>1. granted'[i] = granted[i] /\ elapsed' = elapsed /\ Level(i)' = Level(i)
      BY <1>6 DEF accept_vars, Level, Held, Refilled
    <2>2. QED
      BY <1>1, <2>1
  <1>7. QED
    BY <1>3, <1>4, <1>5, <1>6 DEF AcceptNext

\* Over any window an address is granted at most a burst of connections and
\* the rate times its length, for all constants: accept_loop may drop buckets
\* and make them anew and nobody gains by it.
THEOREM WindowBounded == AcceptSpec => []WindowBound
  <1>1. AcceptInit => WindowInv
    BY BucketConstants DEF AcceptInit, WindowInv, Level, Held
  <1>2. AcceptTypeOK /\ WindowInv => WindowBound
    <2> SUFFICES ASSUME AcceptTypeOK, WindowInv, NEW ip \in IP
                 PROVE  granted[ip] * Unit <= Capacity + elapsed * Rate
      BY DEF WindowBound
    <2>1. granted[ip] \in Nat /\ elapsed \in Nat /\ Level(ip) \in 0..Capacity
      BY LevelType DEF AcceptTypeOK
    <2>2. granted[ip] * Unit \in Nat /\ elapsed * Rate \in Nat
      BY <2>1, BucketConstants, RefillNat
    <2>3. QED
      BY <2>1, <2>2, BucketConstants DEF WindowInv
  <1>3. QED
    BY <1>1, <1>2, AcceptTypeCorrect, WindowStep, PTL DEF AcceptSpec

-----------------------------------------------------------------------------
(* The refinement. *)

\* accept_loop implements the limiter without a table: every step of it grants
\* or refuses, or refills, exactly as the buckets that are never dropped would.
THEOREM CleanupUnobservable == AcceptSpec => ImplementsLimit
  <1> DEFINE levels == [ip \in IP |-> Level(ip)]
  <1>1. AcceptInit => Limit!LimitInit
    BY DEF AcceptInit, Limit!LimitInit, Level, Held
  <1>2. AcceptTypeOK /\ [AcceptNext]_accept_vars => [Limit!LimitNext]_(Limit!limit_vars)
    <2> SUFFICES ASSUME AcceptTypeOK, [AcceptNext]_accept_vars
                 PROVE  Limit!LimitNext \/ UNCHANGED Limit!limit_vars
      OBVIOUS
    <2>1. CASE \E ip \in IP : Accept(ip)
      <3>1. PICK ip \in IP : Accept(ip)
        BY <2>1
      <3>2. CanConsume(BucketOf(ip), now) <=> Level(ip) >= Unit
        BY LevelFound DEF CanConsume
      <3>3. Level(ip) \in 0..Capacity
        BY LevelType
      <3>4. CASE Level(ip) >= Unit
        <4>1. levels' = [levels EXCEPT ![ip] = @ - Unit]
          BY <3>1, <3>4, LevelAccept
        <4>2. /\ outcome' = <<ip, TRUE>>
              /\ granted' = [granted EXCEPT ![ip] = @ + 1]
              /\ elapsed' = elapsed
          BY <3>1, <3>2, <3>4 DEF Accept
        <4>3. Limit!Grant(ip)
          BY <3>4, <4>1, <4>2 DEF Limit!Grant
        <4>4. QED
          BY <4>3 DEF Limit!LimitNext
      <3>5. CASE ~(Level(ip) >= Unit)
        <4>1. levels' = levels
          BY <3>1, <3>5, LevelAccept
        <4>2. outcome' = <<ip, FALSE>> /\ granted' = granted /\ elapsed' = elapsed
          <5>1. ~CanConsume(BucketOf(ip), now)
            BY <3>2, <3>5
          <5>2. CanConsume(BucketOf(ip), now) = FALSE
            BY <5>1 DEF CanConsume
          <5>3. outcome' = <<ip, FALSE>> /\ elapsed' = elapsed
            BY <3>1, <5>2 DEF Accept
          <5>4. granted' = [granted EXCEPT ![ip] = granted[ip]]
            BY <3>1, <5>1 DEF Accept
          <5>5. QED
            BY <5>3, <5>4 DEF AcceptTypeOK
        <4>3. Limit!Refuse(ip)
          BY <3>3, <3>5, <4>1, <4>2, BucketConstants DEF Limit!Refuse
        <4>4. QED
          BY <4>3 DEF Limit!LimitNext
      <3>6. QED
        BY <3>4, <3>5
    <2>2. CASE Elapse
      <3>1. levels' = [ip \in IP |-> IF levels[ip] + Rate > Capacity THEN Capacity
                                     ELSE levels[ip] + Rate]
        BY <2>2, LevelElapse DEF Capped
      <3>2. Limit!Refill
        BY <2>2, <3>1 DEF Elapse, Limit!Refill
      <3>3. QED
        BY <3>2 DEF Limit!LimitNext
    <2>3. CASE OpenWindow
      <3>1. levels' = levels
        BY <2>3 DEF OpenWindow, Level, Held, Refilled
      <3>2. Limit!OpenLimitWindow
        BY <2>3, <3>1 DEF OpenWindow, Limit!OpenLimitWindow
      <3>3. QED
        BY <3>2 DEF Limit!LimitNext
    <2>4. CASE UNCHANGED accept_vars
      <3>1. levels' = levels
        BY <2>4 DEF accept_vars, Level, Held, Refilled
      <3>2. QED
        BY <2>4, <3>1 DEF accept_vars, Limit!limit_vars
    <2>5. QED
      BY <2>1, <2>2, <2>3, <2>4 DEF AcceptNext
  <1>3. QED
    BY <1>1, <1>2, AcceptTypeCorrect, PTL DEF AcceptSpec, ImplementsLimit, Limit!LimitSpec
=============================================================================
