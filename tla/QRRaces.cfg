SPECIFICATION QRSpec
CONSTANTS
    User = {u1, u2}
    Login = {l1, l2, l3}
    Worker = {w1, w2, w3}
    Null = Null
SYMMETRY Symmetry
INVARIANTS QRTypeOK DeliveredIsConfirmed NoStrayLogin
PROPERTY OutcomeIsFinal
CHECK_DEADLOCK FALSE
