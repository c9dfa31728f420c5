-------------------------- MODULE MCTestTransaction --------------------------
(* An instance of TestTransaction for TLC, over the cards of               *)
(* MCTransactionFlow.                                                      *)
EXTENDS TestTransaction, MCTransactionFlow

\* A terminal that knows the application, and one that never goes online.
InstalledFiles ==
    [p \in Place |-> IF p = "crate" THEN [BaseTerminal EXCEPT !.capability = "OfflineOnly"]
                     ELSE BaseTerminal]

\* Where the four files are: all in one directory, the CAPKs nowhere, or a
\* flag that leads nowhere.
Directory(dir) == [f \in File |-> {dir}]
Without(files, lacking) == [f \in File |-> IF f \in lacking THEN {} ELSE files[f]]

Invocations ==
    {[aid |-> NoApp, flags |-> {}, found |-> Directory("cwd"), listed |-> {a1}],
     [aid |-> a1, flags |-> {}, found |-> Without(Directory("crate"), {"capk.toml", "crl.toml"}),
      listed |-> {}],
     [aid |-> a1, flags |-> {"terminal.toml"}, listed |-> {a1},
      found |-> [Directory("EMV_CONFIG_DIR") EXCEPT !["terminal.toml"] = {"flag", "cwd"}]],
     [aid |-> NoApp, flags |-> {"capk.toml"}, found |-> Directory("cwd"), listed |-> {a1}]}

Line(kind, arc, iad, scr) == [kind |-> kind, arc |-> arc, iad |-> iad, scripts |-> scr]
Lines ==
    {Line("nothing", "absent", "absent", {}),
     Line("code", "00", "absent", {}), Line("code", "05", "absent", {}), Line("code", "Z1", "absent", {}),
     Line("objects", "05", "8..16", Positions), Line("objects", "absent", "8..16", Positions),
     Line("objects", "00", "badLength", {}), Line("objects", "badLength", "absent", {}),
     Line("other", "absent", "absent", {})}

HexCodes == {"00", "05"}

\* Every file describes one of these.
InstalledTerminals == {InstalledFiles[p] : p \in Place}

\* An application alone, and one that needs the cardholder's confirmation.
KeyboardLists == Single \cup {{Entry(1, a1, 0, TRUE)}}
=============================================================================
