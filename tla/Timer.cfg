\* The timer is started, stopped and reconfigured again and again.
SPECIFICATION TimerSpec
CONSTANT MaxListeners = 2
INVARIANTS TimerTypeOK NoThreadReplaced OneLateRound
PROPERTIES TimerGoesOn
