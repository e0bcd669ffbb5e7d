------------------------------ MODULE MCLegacyZone ------------------------------
EXTENDS LegacyZone

CONSTANTS self, inv, sens,              \* services
          mode, occ, fan, t1, t2, t3,   \* members
          missing, active, sampling, bounds, owner, warm, cold, modes, late, delayed

McServiceOf == (mode :> self) @@ (occ :> inv) @@ (fan :> inv)
               @@ (t1 :> sens) @@ (t2 :> sens) @@ (t3 :> sens)

McInterfaceOf == (mode :> "ThermalMode") @@ (occ :> "OccStatus") @@ (fan :> "OperationalStatus")
                 @@ (t1 :> "Value") @@ (t2 :> "Value") @@ (t3 :> "Value")

One(g, actions) == <<[group |-> g, actions |-> actions]>>
Event_(g, triggers, actions) == [group |-> g, triggers |-> triggers, parts |-> One(g, actions)]

McDef ==
    (missing :> Event_(<<fan>>, <<"init", "changed">>,
        <<[type |-> "count_state", count |-> 1, state |-> 0, speed |-> 8]>>))
    @@ (active :> Event_(<<occ>>, <<"init", "added", "changed">>,
        <<[type |-> "states_match", states |-> {<<occ, 2>>}, events |-> <<sampling>>]>>))
    @@ (sampling :> [group |-> <<t1, t2>>, triggers |-> <<"init", "added", "changed", "removed">>, parts |->
        One(<<t1, t2>>, <<[type |-> "increase", state |-> 3, factor |-> 1, delta |-> 2]>>)
        \o One(<<t2>>, <<[type |-> "decrease", state |-> 2, factor |-> 1, delta |-> 3]>>)
        \o One(<<t1>>, <<[type |-> "decrease", state |-> 2, factor |-> 1, delta |-> 2]>>)])
    @@ (bounds :> Event_(<<t1, t2, t3>>, <<"init", "added", "changed">>,
        <<[type |-> "floor_median", lower |-> 0, upper |-> 2, speeds |-> <<<<1, 2>>, <<2, 4>>>>],
          [type |-> "ceiling", speeds |-> <<<<0, 7>>, <<2, 8>>, <<3, 9>>>>]>>))
    @@ (owner :> Event_(<<t1, t2, t3>>, <<"init", "owner">>, <<[type |-> "default_floor"]>>))
    @@ (modes :> Event_(<<mode>>, <<"init", "mode">>,
        <<[type |-> "alternate", state |-> 2, def |-> <<warm>>, alt |-> <<cold>>]>>))
    @@ (warm :> Event_(<<t1>>, <<"init", "changed", "added">>,
        <<[type |-> "base"], [type |-> "floor_average", speeds |-> <<<<2, 4>>>>]>>))
    @@ (cold :> Event_(<<t1>>, <<"timer">>, <<[type |-> "update_floor", state |-> 0, speed |-> 3]>>))
    @@ (late :> Event_(<<t2>>, <<"init", "owner">>, <<[type |-> "services_missing", events |-> <<delayed>>]>>))
    @@ (delayed :> Event_(<<t2>>, <<"init">>,
        <<[type |-> "timer", oneshot |-> TRUE,
           actions |-> <<[type |-> "missing_owner", speed |-> 9]>>]>>))

McBuses ==
    {(mode :> 1) @@ (occ :> 0) @@ (fan :> 1) @@ (t1 :> 1) @@ (t2 :> 2) @@ (t3 :> NoValue)}

McConfigs == {<<missing, active>>, <<bounds, owner>>, <<modes, late>>}

ASSUME McSwitchesAlone == SwitchesAlone
ASSUME McLimitsAlone == LimitsAlone
===============================================================================
