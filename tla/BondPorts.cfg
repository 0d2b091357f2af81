SPECIFICATION Spec
CONSTANTS
    eth0 = eth0
    eth1 = eth1
    eth2 = eth2
    eth3 = eth3
    c1 = c1
    c2 = c2
    Members <- TwoBonds
    Commands = {c1, c2}
    NotAPort = NotAPort
SYMMETRY Symmetry
INVARIANTS TypeOK TakenBounded
PROPERTIES LastLinkGuarded
