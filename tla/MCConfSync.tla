---------------------------- MODULE MCConfSync ----------------------------
(* One frontend and two backends, which share nothing but the reload       *)
(* manager; HAProxy starts with an empty file or with one backend.         *)
EXTENDS ConfSync

MCFrontends == {"fe"}
MCBackends  == {"be1", "be2"}
MCCfgs      == {"c1", "c2"}
MCServers   == {"s1", "s2"}

Empty == [n \in MCFrontends \cup MCBackends |-> Absent]
MCStartups ==
    {Empty, [Empty EXCEPT !["be1"] = [cfg |-> "c1", servers |-> {"s1"}]]}

(* A smaller instance for the temporal property; the backend in the file   *)
(* is not wanted unless a batch says so.                                   *)
MCOneBackend == {"be1"}
MCOneStartup == {[n \in MCFrontends \cup MCOneBackend |->
                    IF n = "be1" THEN [cfg |-> "c1", servers |-> {"s1"}] ELSE Absent]}

NoCerts  == {"none"}
AllCerts == {"none", "certs", "crtlists"}
=============================================================================
