---------------------------- MODULE MCAzureFetch ----------------------------
(* AzureFetch with the results a discovery may have on two filesystems.      *)
EXTENDS AzureFetch

CONSTANTS f1, f2

MCFilesystems == {f1, f2}
\* A service principal that hides the federated token, a federated token with its
\* fallback, and one that was selected although a secret is there.
MCDeployments ==
    {[mode |-> "auto", secret |-> TRUE, federated |-> TRUE, broken |-> {}],
     [mode |-> "auto", secret |-> FALSE, federated |-> TRUE, broken |-> {}],
     [mode |-> "workload_identity", secret |-> TRUE, federated |-> TRUE, broken |-> {}]}

MCInventories == {<<<<>>>>, <<<<f1>>, <<f2>>>>}
=============================================================================
