\* Two puts are enough to deliver an older value after a newer one.
SPECIFICATION Spec
CONSTANT MaxPuts = 2
PROPERTY NeverGoesBack
