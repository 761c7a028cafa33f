-------------------------- MODULE MCBrowserSession --------------------------
(* Instances of BrowserSession for TLC.                                     *)
EXTENDS BrowserSession, TLC

CONSTANTS ann,                          \* users
          l1, l2, f1, f2, o1, o2,       \* requests
          t1, t2,                       \* tabs
          home, away                    \* browsers

\* Two browsers with a tab each and one logout; or two tabs of one browser, with
\* one reload and one logout, or two logouts and no reload.
TwoSettings ==
  LET Homes(apart) == {h \in [Tabs -> Browsers] : (h[t1] # h[t2]) <=> apart}
      Uses(homes, idle) ==
        {[home |-> h, requests |-> Requests \ i] : h \in homes, i \in idle}
  IN  Uses(Homes(TRUE), {{o1}, {o2}})
        \cup Uses(Homes(FALSE), {{f, o} : f \in {f1, f2}, o \in {o1, o2}} \cup {{f1, f2}})

EndpointOf == [r \in Requests |->
  IF r \in {l1, l2} THEN "login" ELSE IF r \in {o1, o2} THEN "logout" ELSE "refresh"]

RequestSymmetry == Permutations({l1, l2}) \cup Permutations({f1, f2})
                     \cup Permutations({o1, o2}) \cup Permutations(Tabs) \cup Permutations(Browsers)
=============================================================================
