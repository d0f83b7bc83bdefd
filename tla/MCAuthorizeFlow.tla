---------------------------- MODULE MCAuthorizeFlow ----------------------------
(***************************************************************************)
(* Two flows, one client of each kind; a web URI on the user's machine,    *)
(* the same with a port, one on another machine, and one with a scheme of  *)
(* its own; a document that is replaced by another and by an invalid one.  *)
(* The flows are interchangeable.                                          *)
(***************************************************************************)
EXTENDS AuthorizeFlow, TLC

Uri(scheme, host, port) ==
    [scheme |-> scheme, host |-> host, port |-> port, path |-> "cb", rest |-> ""]
MCWeb == Uri("http", "localhost", "")
MCPort == Uri("http", "127.0.0.1", ":3118")
MCRemote == Uri("http", "example.com", "")
MCApp == Uri("app", "cb", "")
MCUris == {MCWeb, MCPort, MCRemote, MCApp}
MCRegistered == [c \in DcrClients |-> {MCWeb, MCApp}]
MCDocs == {[uris |-> {MCWeb, MCApp}, valid |-> TRUE],
           [uris |-> {MCRemote}, valid |-> TRUE],
           [uris |-> {MCWeb}, valid |-> FALSE]}

MCSymmetry == Permutations(Flows)
================================================================================
