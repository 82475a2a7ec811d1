----------------------------- MODULE MCServerLife -----------------------------
(* The small instances of ServerLife that TLC explores. *)
EXTENDS ServerLife, TLC

NoSettings == [f \in {} |-> None]
FilesAB == [cert_file |-> "a", key_file |-> "b"]

MCPaths == {"a", "b", "c"}

\* Files by option and by TOML file, a key file that overrides the one of the
\* TOML file, one file for both, no files, a setting out of range, one overridden
\* to be in range, and a certificate without a key.
MCCommands ==
    { [cli |-> FilesAB, file |-> NoSettings],
      [cli |-> [key_file |-> "c"], file |-> FilesAB],
      [cli |-> [cert_file |-> "c", key_file |-> "c"], file |-> NoSettings],
      [cli |-> [jitter_depth |-> "in range"],
       file |-> FilesAB @@ [jitter_depth |-> "out of range"]],
      [cli |-> NoSettings, file |-> NoSettings],
      [cli |-> NoSettings, file |-> FilesAB @@ [max_display_name |-> "out of range"]],
      [cli |-> [cert_file |-> "a"], file |-> NoSettings] }

OnlyAB == {[cli |-> FilesAB, file |-> NoSettings]}
=============================================================================
