SPECIFICATION Spec
CONSTANTS
 n1=n1
 m1=m1
 j1=j1
 c1=c1
 s1=s1
 w1=w1
 p1=p1
 a1=a1
 i1=i1
 i2=i2
 e1=e1
 z1=z1
 None=None
PROPERTY NothingStaysOpen
CHECK_DEADLOCK FALSE
