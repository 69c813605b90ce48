\* Spec section 4.6: the rotation offset is KeyExpiration/2 seconds for every configured value.
CONSTANTS
    Width = 20
    Second = 1000
    MaxExpiration = 600
SPECIFICATION Spec
INVARIANT UpdateOffsetIsHalfLife
