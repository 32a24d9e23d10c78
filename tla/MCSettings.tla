----------------------------- MODULE MCSettings -----------------------------
(* Two servers, editors and slots, two orders of the unsorted rows, and      *)
(* environments that each lack, hide or spoil one variable.                  *)
EXTENDS Settings, TLC

MCSlots == {"site_logo_url", "site_theme_primary"}
MCRegistry == [site_logo_url |-> 1, site_theme_primary |-> 2]
MCForward == [server_production_mode |-> 1, website_address |-> 2, mail_app_password |-> 3,
              site_logo_url |-> 4, site_theme_primary |-> 5]
MCSet(v) == [primary |-> v, legacy |-> Unset]
MCOld(v) == [primary |-> Unset, legacy |-> v]
MCHidden(v) == [primary |-> "", legacy |-> v]
MCEnv(key, origin, proxy) == [key |-> key, origin |-> origin, proxy |-> proxy]
MCEnvs == {MCEnv(MCSet("A"), MCOld("o"), MCOld("1")),
           MCEnv(MCSet("A"), MCHidden("o"), MCSet("1")),
           MCEnv(MCSet("A"), MCSet("o"), MCHidden("1")),
           MCEnv(MCSet(""), MCSet("o"), MCSet("1")),
           MCEnv(MCSet("bad"), MCSet("o"), MCSet("1"))}
MCSymmetry == Permutations(Servers) \cup Permutations(Editors)
MCHeapOrders == {MCForward, [n \in Names |-> 6 - MCForward[n]]}
=============================================================================
