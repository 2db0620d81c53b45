\* Calls, a dashboard and a deploy on one machine.
SPECIFICATION Spec
CONSTANTS
    c1 = c1
    c2 = c2
    d1 = d1
    d2 = d2
    deployer = deployer
    Calls <- MCCalls
    Dashboards <- MCDashboards
    Deployer = deployer
    MaxHeads = 4
    Scenarios <- MCMeet
SYMMETRY MCSymmetry

    
PROPERTIES
    DashboardKept
CHECK_DEADLOCK FALSE
