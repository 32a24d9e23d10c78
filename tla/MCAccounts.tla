----------------------------- MODULE MCAccounts -----------------------------
(* One address in two spellings, and the scheduler's.                        *)
EXTENDS Accounts, TLC

MCEmails == {"ann", "Ann", "scheduler"}
MCFolded == "ann" :> "ann" @@ "Ann" :> "ann" @@ "scheduler" :> "scheduler"
=============================================================================
