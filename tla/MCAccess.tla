------------------------------- MODULE MCAccess -------------------------------
(* Instances of Access for TLC: a project with a file and a directory that  *)
(* may be a link out of it, to a directory with a file and a key.           *)
EXTENDS Access, FiniteSetsExt

Inside  == <<"work", "a">>
Out     == <<"home", "a">>
Key     == <<"home", "key">>
Through == <<"work", "lib", "a">>   \* Out, while the link is there

MCFiles == {<<"work">>, <<"home">>, Inside, Out, Key}
MCLinkAt == <<"work", "lib">>
MCLinkTo == <<"home">>

Curl == [base |-> "curl", first |-> "curl", names |-> {"curl"}, hosts |-> {"intranet"}]
Git  == [base |-> "git", first |-> "git", names |-> {"git"}, hosts |-> {"intranet"}]
Both == [base |-> "make", first |-> "make", names |-> {"make", "git"}, hosts |-> {}]

MCProject == <<"work">>
On(tool, path) == [tool |-> tool, path |-> path, base |-> MCProject]
Run(command) == [tool |-> "Bash", command |-> command]

Strict ==
    [l \in Lists |->
        CASE l = "deniedNames" -> {"key"}
          [] l = "allowedCommands" -> {"curl"}
          [] l = "netCommands" -> {"curl"}
          [] l = "denySubnets" -> {"private"}
          [] l = "allowedDirs" -> {Blank}
          [] OTHER -> {}]
Loose ==
    [Strict EXCEPT !["allowedDirs"] = {<<"home">>}, !["allowedCommands"] = {Blank},
                   !["allowedPaths"] = {Key}]
Broken == [Loose EXCEPT !["denySubnets"] = {Blank}]
MCPolicies == {Strict, Loose, Broken}

MCCalls == {On("Read", Key), On("Write", Through), On("Ls", <<"home">>),
            On("Ls", Out), On("RunScript", Out),
            Run(Curl), Run(Git), Run(Both), [tool |-> "WebFetch", host |-> "intranet"]}

(* The runs go no further once three entries were allowed.                   *)
FewGiven == MapThenSumSet(LAMBDA b : Cardinality(given[b]), Buckets) < 3
=============================================================================
