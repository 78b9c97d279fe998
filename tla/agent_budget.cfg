SPECIFICATION Spec
CONSTANTS
    look_up = look_up
    clock = clock
    set_led = set_led
    set_relay = set_relay
    sensor = sensor
    actuator = actuator
    NoTool = NoTool
    Names = {sensor, actuator}
    Tools = {look_up, clock, set_led, set_relay}
    SideEffects = {set_led, set_relay}
    Hooked = {look_up}
    MaxSteps = 3
    NameOf <- ConstNameOf
CHECK_DEADLOCK FALSE
INVARIANT BudgetReported
