------------------------------ MODULE MCSizer -------------------------------
(* The instance of Sizer that TLC checks: two scans, whose values the cfg  *)
(* cannot write.                                                           *)
EXTENDS Sizer

(* An account region whose key the user may also type, and a grid. *)
CloudSite == [name |-> "k1", users |-> Undefined, activeIPs |-> 100]
MCScans ==
  { [groups |-> << [key |-> "k1", site |-> CloudSite], [key |-> "k1", site |-> CloudSite] >>,
     members |-> << >>],
    [groups |-> << >>,
     members |-> << [name |-> "m1", users |-> Undefined, activeIPs |-> 100, qps |-> 20,
                     country |-> "c1", city |-> "t1"] >>] }

MCEdits == { <<"activeIPs", 5000>> }
MCMost == [region |-> 2, country |-> 2, city |-> 2, site |-> 2, box |-> 1]
=============================================================================
