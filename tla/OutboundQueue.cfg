SPECIFICATION Spec
CONSTANT MaxTicket = 4
INVARIANT OnlyControlOvertakesPublish
PROPERTIES ReadyRequestsLeave ControlPassesBlockedPublishes
